---- MODULE Spec2Model ----
(***************************************************************************)
(* SampleChain: the ledger (samplechain/blockchain.py), its blocks and     *)
(* transactions (block.py, transaction.py) and the miner (miner.py), with   *)
(* its sequential and its parallel search, as a state machine.             *)
(***************************************************************************)
EXTENDS Integers, Sequences, FiniteSets, TLC

(***************************************************************************)
(* Bounds of the model.                                                    *)
(***************************************************************************)
MaxPending == 2
MaxChain == 2
MaxCandidates == 2
max_nonce == 4
MaxMined == 2
MaxTransactions == 4
MaxBlocks == 3

(***************************************************************************)
(* Program constants.                                                      *)
(***************************************************************************)
RewardAddress == -1
NoTimestamp == -1
GenesisDifficulty == 0

(***************************************************************************)
(* Input domains.                                                          *)
(***************************************************************************)
MinerAddresses == {2}
BlockSizes == {1, 2}
Timestamps == {1}
Difficulties == {1}
Rewards == {0, 1}
InitialBalances == {(0 :> 3)}
NumWorkers == {1, 2, 3}

\* The ledger (a Blockchain), the blocks its caller holds, and the last call.
VARIABLES chain, pending_transactions, balances, difficulty, mining_reward,
          initial_balances, candidates, ret, old

\* How many times add_transaction has admitted each transaction so far.
VARIABLE admitted

\* A Miner: its statistics, the Block objects of the search it runs (object
\* 0 is the block it was given), the futures of a parallel search, and the
\* position of the thread that called mine_block_parallel.
VARIABLES mining_stats, objects, futures, call

ledger_vars == <<chain, pending_transactions, balances, difficulty,
                 mining_reward, initial_balances, candidates, admitted>>

miner_vars == <<mining_stats, objects, futures, call>>

vars == <<chain, pending_transactions, balances, difficulty, mining_reward,
          initial_balances, candidates, ret, old, admitted, mining_stats,
          objects, futures, call>>

(***************************************************************************)
(* Transaction (transaction.py).                                           *)
(***************************************************************************)
Transaction(from, to, value, fee) ==
    [from_address |-> from, to_address |-> to, value |-> value, fee |-> fee,
     timestamp |-> NoTimestamp]

\* Mutant of post_init_ok: a transfer to oneself is not rejected.
post_init_ok_selfsend(t) ==
    /\ ~(t.value <= 0)
    /\ ~(t.fee < 0)
    /\ ~(t.from_address < -1 \/ t.to_address < 0)

\* Transaction.__post_init__: TRUE iff construction raises no ValueError.
post_init_ok(t) ==
    /\ ~(t.value <= 0)
    /\ ~(t.fee < 0)
    /\ ~(t.from_address < -1 \/ t.to_address < 0)
    /\ ~(t.from_address = t.to_address /\ t.from_address # -1)

\* The transactions a caller constructs and submits.
Transactions ==
    {t \in {Transaction(0, 1, 2, 0), Transaction(0, 1, 2, 1),
            Transaction(1, 0, 1, 0), Transaction(RewardAddress, 1, 1, 0)} :
        post_init_ok(t)}

(***************************************************************************)
(* Block (block.py).  The SHA256 digest is modelled by the tuple of the    *)
(* hashed fields (collision free), and the number of leading zero hex      *)
(* characters of the digest by a mixing function of the same fields.       *)
(***************************************************************************)
ZeroHash == << >>

Block(index, transactions, timestamp, previous_hash, nonce, diff) ==
    [index |-> index, transactions |-> transactions, timestamp |-> timestamp,
     previous_hash |-> previous_hash, nonce |-> nonce, difficulty |-> diff]

\* Block.calculate_hash: index, timestamp, previous_hash, nonce, transactions
\* (the difficulty is not part of the hashed string).
calculate_hash(block) ==
    <<block.index, block.timestamp, block.previous_hash, block.nonce,
      block.transactions>>

TxCode(t) == t.from_address + 2 + 3 * t.to_address + 5 * t.value + 7 * t.fee

RECURSIVE TxsCode(_)
TxsCode(txs) ==
    IF txs = << >> THEN 1
    ELSE (TxCode(Head(txs)) + 3 * TxsCode(Tail(txs))) % 64

RECURSIVE HashCode(_)
HashCode(h) ==
    IF h = ZeroHash THEN 0
    ELSE (7 * h[1] + 2 * h[2] + 5 * HashCode(h[3]) + 6 * h[4] + TxsCode(h[5])) % 64

\* Number of leading "0" characters of the hex digest.
LeadingZeros(h) ==
    IF h = ZeroHash THEN 64
    ELSE IF HashCode(h) % 4 # 0 THEN 0
    ELSE IF HashCode(h) % 16 # 0 THEN 1
    ELSE 2

\* Block.is_hash_valid: the hash starts with "0" * difficulty.
is_hash_valid(block) == LeadingZeros(calculate_hash(block)) >= block.difficulty

\* Block.create_genesis_block followed by Blockchain.__init__ line 77.
create_genesis_block(ts) == Block(0, << >>, ts, ZeroHash, 0, GenesisDifficulty)

(***************************************************************************)
(* The balance mapping: a defaultdict(int), a function on the keys it      *)
(* holds.                                                                  *)
(***************************************************************************)
Get(bal, a) == IF a \in DOMAIN bal THEN bal[a] ELSE 0

\* bal[a] += d on a defaultdict: the key is created when missing.
Add(bal, a, d) ==
    [x \in DOMAIN bal \cup {a} |-> Get(bal, x) + (IF x = a THEN d ELSE 0)]

RECURSIVE SumOver(_, _)
SumOver(bal, keys) ==
    IF keys = {} THEN 0
    ELSE LET k == CHOOSE x \in keys : TRUE
         IN bal[k] + SumOver(bal, keys \ {k})

TotalBalance(bal) == SumOver(bal, DOMAIN bal)

(***************************************************************************)
(* Blockchain (blockchain.py).                                             *)
(***************************************************************************)
get_latest_block == chain[Len(chain)]

\* Mutant of is_transaction_valid: what the sender has pending is reserved.
is_transaction_valid_reserving(transaction, bal) ==
    LET reserved[i \in 0..Len(pending_transactions)] ==
            IF i = 0 THEN 0
            ELSE reserved[i - 1]
                 + (IF pending_transactions[i].from_address
                          = transaction.from_address
                    THEN pending_transactions[i].value
                         + pending_transactions[i].fee
                    ELSE 0)
    IN Get(bal, transaction.from_address) - reserved[Len(pending_transactions)]
           >= transaction.value + transaction.fee

\* Blockchain.is_transaction_valid.
is_transaction_valid(transaction, bal) ==
    LET sender_balance == Get(bal, transaction.from_address)
        total_cost == transaction.value + transaction.fee
    IN sender_balance >= total_cost

\* Mutant of ValidateLoop: the temporary balances are never updated, every
\* transaction is checked against the committed balances.
RECURSIVE ValidateLoop_committed(_, _, _, _)
ValidateLoop_committed(transactions, valid_transactions, temp_balances, block_size) ==
    IF transactions = << >> THEN valid_transactions
    ELSE IF Len(valid_transactions) >= block_size THEN valid_transactions
    ELSE IF Get(temp_balances, Head(transactions).from_address)
              >= Head(transactions).value + Head(transactions).fee
         THEN ValidateLoop_committed(Tail(transactions),
                  Append(valid_transactions, Head(transactions)),
                  temp_balances, block_size)
         ELSE ValidateLoop_committed(Tail(transactions), valid_transactions,
                  temp_balances, block_size)

\* Mutant of ValidateLoop: the walk stops at the first transaction that is
\* not affordable.
RECURSIVE ValidateLoop_stop(_, _, _, _)
ValidateLoop_stop(transactions, valid_transactions, temp_balances, block_size) ==
    IF transactions = << >> THEN valid_transactions
    ELSE IF Len(valid_transactions) >= block_size THEN valid_transactions
    ELSE LET transaction == Head(transactions)
         IN IF is_transaction_valid(transaction, temp_balances)
            THEN ValidateLoop_stop(Tail(transactions),
                     Append(valid_transactions, transaction),
                     Add(Add(temp_balances, transaction.from_address,
                             -(transaction.value + transaction.fee)),
                         transaction.to_address, transaction.value),
                     block_size)
            ELSE valid_transactions

\* Mutant of ValidateLoop: the payer is not debited in the temporary
\* balances.
RECURSIVE ValidateLoop_nodebit(_, _, _, _)
ValidateLoop_nodebit(transactions, valid_transactions, temp_balances, block_size) ==
    IF transactions = << >> THEN valid_transactions
    ELSE IF Len(valid_transactions) >= block_size THEN valid_transactions
    ELSE LET transaction == Head(transactions)
         IN IF is_transaction_valid(transaction, temp_balances)
            THEN ValidateLoop_nodebit(Tail(transactions),
                     Append(valid_transactions, transaction),
                     Add(temp_balances, transaction.to_address,
                         transaction.value),
                     block_size)
            ELSE ValidateLoop_nodebit(Tail(transactions), valid_transactions,
                                      temp_balances, block_size)

\* Mutant of ValidateLoop: the payee is not credited in the temporary
\* balances.
RECURSIVE ValidateLoop_nocredit(_, _, _, _)
ValidateLoop_nocredit(transactions, valid_transactions, temp_balances, block_size) ==
    IF transactions = << >> THEN valid_transactions
    ELSE IF Len(valid_transactions) >= block_size THEN valid_transactions
    ELSE LET transaction == Head(transactions)
         IN IF is_transaction_valid(transaction, temp_balances)
            THEN ValidateLoop_nocredit(Tail(transactions),
                     Append(valid_transactions, transaction),
                     Add(temp_balances, transaction.from_address,
                         -(transaction.value + transaction.fee)),
                     block_size)
            ELSE ValidateLoop_nocredit(Tail(transactions), valid_transactions,
                                       temp_balances, block_size)

\* The body of the loop of validate_transactions_for_block.
RECURSIVE ValidateLoop(_, _, _, _)
ValidateLoop(transactions, valid_transactions, temp_balances, block_size) ==
    IF transactions = << >> THEN valid_transactions
    ELSE IF Len(valid_transactions) >= block_size THEN valid_transactions
    ELSE LET transaction == Head(transactions)
         IN IF is_transaction_valid(transaction, temp_balances)
            THEN ValidateLoop(Tail(transactions),
                     Append(valid_transactions, transaction),
                     Add(Add(temp_balances, transaction.from_address,
                             -(transaction.value + transaction.fee)),
                         transaction.to_address, transaction.value),
                     block_size)
            ELSE ValidateLoop(Tail(transactions), valid_transactions, temp_balances,
                              block_size)

validate_transactions_for_block(transactions, block_size) ==
    ValidateLoop(transactions, << >>, balances, block_size)

\* Mutant of pending_after_validation: a transaction that is not affordable
\* is taken out of the list.
pending_after_validation_dropping(transactions, block_size) ==
    SelectSeq(transactions, LAMBDA t : is_transaction_valid(t, balances))

\* self.pending_transactions once validate_transactions_for_block has
\* returned: the loop walked a copy (transactions[:], line 161) and removes
\* nothing.
pending_after_validation(transactions, block_size) == transactions

\* Mutant of mine_pending_transactions: no reward transaction.
mine_pending_transactions_noreward(miner_address, block_size, ts) ==
    IF pending_transactions = << >> THEN << >>
    ELSE LET valid_transactions ==
                 validate_transactions_for_block(pending_transactions, block_size)
         IN IF valid_transactions = << >> THEN << >>
            ELSE <<Block(Len(chain), valid_transactions, ts,
                         calculate_hash(get_latest_block), 0, difficulty)>>

\* Mutant of mine_pending_transactions: a block is built also when no
\* pending transaction was accepted.
mine_pending_transactions_always(miner_address, block_size, ts) ==
    IF pending_transactions = << >> THEN << >>
    ELSE LET valid_transactions ==
                 validate_transactions_for_block(pending_transactions, block_size)
             with_reward ==
                 IF mining_reward > 0
                 THEN <<Transaction(RewardAddress, miner_address,
                                    mining_reward, 0)>>
                      \o valid_transactions
                 ELSE valid_transactions
         IN <<Block(Len(chain), with_reward, ts,
                    calculate_hash(get_latest_block), 0, difficulty)>>

\* Mutant of mine_pending_transactions: the reward transaction is appended.
mine_pending_transactions_append(miner_address, block_size, ts) ==
    IF pending_transactions = << >> THEN << >>
    ELSE LET valid_transactions ==
                 validate_transactions_for_block(pending_transactions, block_size)
         IN IF valid_transactions = << >> THEN << >>
            ELSE LET with_reward ==
                         IF mining_reward > 0
                         THEN valid_transactions
                              \o <<Transaction(RewardAddress, miner_address,
                                               mining_reward, 0)>>
                         ELSE valid_transactions
                 IN <<Block(Len(chain), with_reward, ts,
                            calculate_hash(get_latest_block), 0, difficulty)>>

\* Blockchain.mine_pending_transactions: << >> stands for None, <<block>> for
\* the block returned; ts is int(time.time()) at the Block's construction.
mine_pending_transactions(miner_address, block_size, ts) ==
    IF pending_transactions = << >> THEN << >>
    ELSE LET valid_transactions ==
                 validate_transactions_for_block(pending_transactions, block_size)
         IN IF valid_transactions = << >> THEN << >>
            ELSE LET with_reward ==
                         IF mining_reward > 0
                         THEN <<Transaction(RewardAddress, miner_address,
                                            mining_reward, 0)>>
                              \o valid_transactions
                         ELSE valid_transactions
                 IN <<Block(Len(chain), with_reward, ts,
                            calculate_hash(get_latest_block), 0, difficulty)>>

\* Mutant of ReplayLoop: no affordability check.
RECURSIVE ReplayLoop_unchecked(_, _)
ReplayLoop_unchecked(transactions, temp_balances) ==
    IF transactions = << >> THEN [ok |-> TRUE, temp |-> temp_balances]
    ELSE LET transaction == Head(transactions)
         IN ReplayLoop_unchecked(Tail(transactions),
                Add(IF transaction.from_address # -1
                    THEN Add(temp_balances, transaction.from_address,
                             -(transaction.value + transaction.fee))
                    ELSE temp_balances,
                    transaction.to_address, transaction.value))

\* The replay loop of is_block_valid (lines 280-287): whether every non-reward
\* transaction is affordable in order, and the temporary balances on return.
RECURSIVE ReplayLoop(_, _)
ReplayLoop(transactions, temp_balances) ==
    IF transactions = << >> THEN [ok |-> TRUE, temp |-> temp_balances]
    ELSE LET transaction == Head(transactions)
         IN IF transaction.from_address # -1
               /\ ~is_transaction_valid(transaction, temp_balances)
            THEN [ok |-> FALSE, temp |-> temp_balances]
            ELSE ReplayLoop(Tail(transactions),
                     Add(IF transaction.from_address # -1
                         THEN Add(temp_balances, transaction.from_address,
                                  -(transaction.value + transaction.fee))
                         ELSE temp_balances,
                         transaction.to_address, transaction.value))

\* Mutant of is_block_valid: a hash with one leading zero less than the
\* difficulty passes.
is_block_valid_weakpow(block, skip_mining) ==
    IF block.index # Len(chain) THEN FALSE
    ELSE IF block.previous_hash # calculate_hash(get_latest_block) THEN FALSE
    ELSE IF ~skip_mining
            /\ LeadingZeros(calculate_hash(block)) < block.difficulty - 1
         THEN FALSE
    ELSE ReplayLoop(block.transactions, balances).ok

\* Mutant of is_block_valid: neither the index nor the previous hash is
\* checked.
is_block_valid_replayonly(block, skip_mining) ==
    IF ~skip_mining /\ ~is_hash_valid(block) THEN FALSE
    ELSE ReplayLoop(block.transactions, balances).ok

\* Mutants of is_block_valid: one check left out.
is_block_valid_noindex(block, skip_mining) ==
    IF block.previous_hash # calculate_hash(get_latest_block) THEN FALSE
    ELSE IF ~skip_mining /\ ~is_hash_valid(block) THEN FALSE
    ELSE ReplayLoop(block.transactions, balances).ok

is_block_valid_nolink(block, skip_mining) ==
    IF block.index # Len(chain) THEN FALSE
    ELSE IF ~skip_mining /\ ~is_hash_valid(block) THEN FALSE
    ELSE ReplayLoop(block.transactions, balances).ok

is_block_valid_nopow(block, skip_mining) ==
    IF block.index # Len(chain) THEN FALSE
    ELSE IF block.previous_hash # calculate_hash(get_latest_block) THEN FALSE
    ELSE ReplayLoop(block.transactions, balances).ok

\* Blockchain.is_block_valid.
is_block_valid(block, skip_mining) ==
    IF block.index # Len(chain) THEN FALSE
    ELSE IF block.previous_hash # calculate_hash(get_latest_block) THEN FALSE
    ELSE IF ~skip_mining /\ ~is_hash_valid(block) THEN FALSE
    ELSE ReplayLoop(block.transactions, balances).ok

\* Mutant of balances_after_validation: the replay runs on self.balances
\* itself instead of a copy.
balances_after_validation_nocopy(block, skip_mining) ==
    IF block.index # Len(chain) THEN balances
    ELSE IF block.previous_hash # calculate_hash(get_latest_block) THEN balances
    ELSE IF ~skip_mining /\ ~is_hash_valid(block) THEN balances
    ELSE ReplayLoop(block.transactions, balances).temp

\* self.balances once is_block_valid has returned: the replay ran on
\* self.balances.copy() (line 279), so the mapping itself is as before.
balances_after_validation(block, skip_mining) == balances

\* Mutant of apply_transactions: the fee of every transaction is credited to
\* the recipient of the block's reward transaction.
RECURSIVE apply_transactions_fee_to(_, _, _)
apply_transactions_fee_to(bal, transactions, miner) ==
    IF transactions = << >> THEN bal
    ELSE LET transaction == Head(transactions)
             paid == IF transaction.from_address # -1
                     THEN Add(Add(bal, transaction.from_address,
                                  -(transaction.value + transaction.fee)),
                              miner, transaction.fee)
                     ELSE bal
         IN apply_transactions_fee_to(
                Add(paid, transaction.to_address, transaction.value),
                Tail(transactions), miner)

apply_transactions_fee_to_miner(bal, transactions) ==
    IF transactions # << >> /\ Head(transactions).from_address = -1
    THEN apply_transactions_fee_to(bal, transactions,
                                   Head(transactions).to_address)
    ELSE apply_transactions_fee_to(bal, transactions, 0)

\* add_block lines 238-243: the transactions applied to the balances.
RECURSIVE apply_transactions(_, _)
apply_transactions(bal, transactions) ==
    IF transactions = << >> THEN bal
    ELSE LET transaction == Head(transactions)
         IN apply_transactions(
                Add(IF transaction.from_address # -1
                    THEN Add(bal, transaction.from_address,
                             -(transaction.value + transaction.fee))
                    ELSE bal,
                    transaction.to_address, transaction.value),
                Tail(transactions))

\* list.remove(x): the first element equal to x is taken out.
RECURSIVE list_remove(_, _)
list_remove(list, x) ==
    IF list = << >> THEN << >>
    ELSE IF Head(list) = x THEN Tail(list)
    ELSE <<Head(list)>> \o list_remove(Tail(list), x)

Contains(list, x) == \E i \in 1..Len(list) : list[i] = x

Elements(list) == {list[i] : i \in 1..Len(list)}

\* Mutant of remove_processed: the whole pending list is cleared.
remove_processed_clear(pending, transactions) == << >>

\* Mutant of remove_processed: processed transactions stay pending.
remove_processed_keep(pending, transactions) == pending

\* add_block lines 249-251: processed transactions leave the pending list.
RECURSIVE remove_processed(_, _)
remove_processed(pending, transactions) ==
    IF transactions = << >> THEN pending
    ELSE remove_processed(
             IF Contains(pending, Head(transactions))
             THEN list_remove(pending, Head(transactions))
             ELSE pending,
             Tail(transactions))

\* Blockchain.is_chain_valid(validate_mining) on a chain.
is_chain_valid(c, validate_mining) ==
    \A i \in 2..Len(c) :
        /\ ~(validate_mining /\ ~is_hash_valid(c[i]))
        /\ ~(c[i].previous_hash # calculate_hash(c[i - 1]))

(***************************************************************************)
(* Miner.mine_block (miner.py): the sequential search.                     *)
(***************************************************************************)
\* Mutant of MineLoop: the largest nonce of the range that qualifies.
MineLoop_last(block, nonce) ==
    LET qualifying ==
            {n \in nonce..(max_nonce - 1) :
                LeadingZeros(calculate_hash([block EXCEPT !.nonce = n]))
                    >= block.difficulty}
    IN IF qualifying = {}
       THEN [found |-> FALSE, block |-> [block EXCEPT !.nonce = max_nonce - 1]]
       ELSE [found |-> TRUE,
             block |-> [block EXCEPT !.nonce =
                           CHOOSE n \in qualifying :
                               \A k \in qualifying : k <= n]]

RECURSIVE MineLoop(_, _)
MineLoop(block, nonce) ==
    IF nonce >= max_nonce
    THEN [found |-> FALSE,
          block |-> IF max_nonce > 0 THEN [block EXCEPT !.nonce = max_nonce - 1]
                    ELSE block]
    ELSE IF LeadingZeros(calculate_hash([block EXCEPT !.nonce = nonce]))
                >= block.difficulty
         THEN [found |-> TRUE, block |-> [block EXCEPT !.nonce = nonce]]
         ELSE MineLoop(block, nonce + 1)

\* Miner.__init__ line 50 (total_time, wall-clock seconds, is left out).
NoStats == [blocks_mined |-> 0, total_hashes |-> 0]

\* Mutant of mine_block: the hashes of a search that fails are counted.
mine_block_counting(block, stats) ==
    IF block.difficulty < 1
    THEN [raised |-> TRUE, found |-> FALSE, block |-> block, stats |-> stats]
    ELSE LET r == MineLoop(block, 0)
         IN [raised |-> FALSE, found |-> r.found, block |-> r.block,
             stats |-> [blocks_mined |->
                            stats.blocks_mined + (IF r.found THEN 1 ELSE 0),
                        total_hashes |->
                            stats.total_hashes + r.block.nonce + 1]]

\* Miner.mine_block on a block, by a miner with the statistics stats: whether
\* MiningError was raised, the value returned, the block and the statistics
\* afterwards.
mine_block(block, stats) ==
    IF block.difficulty < 1
    THEN [raised |-> TRUE, found |-> FALSE, block |-> block, stats |-> stats]
    ELSE LET r == MineLoop(block, 0)
         IN [raised |-> FALSE, found |-> r.found, block |-> r.block,
             stats |-> IF r.found
                       THEN [blocks_mined |-> stats.blocks_mined + 1,
                             total_hashes |->
                                 stats.total_hashes + r.block.nonce + 1]
                       ELSE stats]

\* The thread that calls mine_block_parallel, when it is in no call.
Idle == [pc |-> "idle", num_workers |-> 0, retval |-> FALSE, raised |-> FALSE,
         winner |-> 0, arg |-> << >>]

(***************************************************************************)
(* The last call as its caller sees it (ret: the operation, its arguments  *)
(* and whether it returned normally), and the ledger as it was when the    *)
(* call was made (old).                                                    *)
(***************************************************************************)
Result(op, ok, tx, block, skip) ==
    [op |-> op, ok |-> ok, tx |-> tx, block |-> block, skip |-> skip,
     block_size |-> 0, miner_address |-> 0, arg |-> << >>, raised |-> FALSE,
     value |-> << >>]

Snapshot ==
    [chain |-> chain, pending_transactions |-> pending_transactions,
     balances |-> balances, mining_stats |-> mining_stats,
     difficulty |-> difficulty]

(***************************************************************************)
(* Blocks a caller builds with the Block constructor and hands to          *)
(* add_block directly.                                                     *)
(***************************************************************************)
\* Block.__post_init__: TRUE iff construction raises no ValueError.
block_post_init_ok(b) ==
    /\ ~(b.index < 0)
    /\ ~(b.difficulty < 1)

CallerTransactionLists ==
    LET tA == Transaction(0, 1, 2, 1)
        tB == Transaction(0, 1, 2, 0)
        r1 == Transaction(RewardAddress, 2, 1, 0)
        r2 == Transaction(RewardAddress, 0, 2, 0)
    IN {<< >>, <<tB, tB>>, <<r1, tA>>, <<r2, tB, tB>>, <<r1, r1>>}

\* The blocks mine_pending_transactions returns in the current state, as
\* returned and after Miner.mine_block.
AssembledBlocks ==
    LET returned ==
            UNION {Elements(mine_pending_transactions(m, bs, ts)) :
                       m \in MinerAddresses, bs \in BlockSizes, ts \in Timestamps}
    IN returned \cup {mine_block(b, NoStats).block : b \in returned}

\* Well linked blocks of any content and difficulty, blocks with a wrong
\* index or a wrong previous_hash, and the blocks the ledger assembles.
CallerBlocks ==
    {b \in AssembledBlocks \cup [index : {Len(chain)},
            transactions : CallerTransactionLists,
            timestamp : Timestamps,
            previous_hash : {calculate_hash(get_latest_block)},
            nonce : {0},
            difficulty : {1, 2}]
        \cup [index : {Len(chain), Len(chain) + 1},
              transactions : {<<Transaction(0, 1, 2, 0)>>},
              timestamp : Timestamps,
              previous_hash : {calculate_hash(get_latest_block), ZeroHash},
              nonce : {0},
              difficulty : {1}] :
        block_post_init_ok(b)}

(***************************************************************************)
(* Miner.mine_block_parallel (miner.py lines 97-181): the calling thread   *)
(* submits one _mine_range task per worker, each on a copy of the block,   *)
(* and takes the futures as they complete.                                 *)
(***************************************************************************)
chunk_size(num_workers) == max_nonce \div num_workers

\* The nonce range of worker i (0-based, as in the code).
start_nonce(i, num_workers) == i * chunk_size(num_workers)

\* Mutant of end_nonce: the ranges before the last one end one nonce early.
end_nonce_short(i, num_workers) ==
    IF i < num_workers - 1
    THEN start_nonce(i, num_workers) + chunk_size(num_workers) - 1
    ELSE max_nonce

\* Mutant of end_nonce: the last range is chunk_size long like the others.
end_nonce_even(i, num_workers) ==
    start_nonce(i, num_workers) + chunk_size(num_workers)

end_nonce(i, num_workers) ==
    IF i < num_workers - 1
    THEN start_nonce(i, num_workers) + chunk_size(num_workers)
    ELSE max_nonce

\* Mutant of copy_block: the task is given the block itself.
copy_block_shared(id, fresh) == id

\* Miner._copy_block: the Block object a task is given, when the block is
\* the object id: a new object (fresh), made by the Block constructor.
copy_block(id, fresh) == fresh

\* Mutant of copy_block_raises: the copy is made without the constructor.
copy_block_raises_never(block) == FALSE

\* Miner._copy_block raises the ValueError of Block.__post_init__.
copy_block_raises(block) == ~block_post_init_ok(block)

Future(obj, first, last) ==
    [obj |-> obj, nonce |-> first, end_nonce |-> last, state |-> "PENDING",
     result |-> << >>, yielded |-> FALSE]

\* One turn of the loop of _mine_range by the task of future f on the
\* objects objs: the objects and the future afterwards.
mine_range(objs, f) ==
    IF f.nonce >= f.end_nonce
    THEN [objects |-> objs, future |-> [f EXCEPT !.state = "FINISHED"]]
    ELSE LET written == [objs EXCEPT ![f.obj].nonce = f.nonce]
         IN [objects |-> written,
             future |->
                 IF LeadingZeros(calculate_hash(written[f.obj]))
                        >= written[f.obj].difficulty
                 THEN [f EXCEPT !.state = "FINISHED", !.result = <<f.nonce>>]
                 ELSE IF f.nonce + 1 >= f.end_nonce
                      THEN [f EXCEPT !.state = "FINISHED", !.nonce = f.nonce + 1]
                      ELSE [f EXCEPT !.nonce = f.nonce + 1]]

\* The blocks a caller builds and hands to a miner: the genesis block of the
\* ledger (difficulty 0) and blocks on top of it.
MinerTransactionLists ==
    {<<Transaction(0, 1, 2, 0)>>, <<Transaction(0, 1, 2, 1)>>,
     <<Transaction(0, 1, 2, 0), Transaction(1, 0, 1, 0)>>,
     <<Transaction(RewardAddress, 1, 1, 0)>>}

MinerBlocks ==
    {chain[1]} \cup
    {b \in [index : {1},
            transactions : MinerTransactionLists,
            timestamp : Timestamps,
            previous_hash : {calculate_hash(chain[1])},
            nonce : {0},
            difficulty : {1, 2}] : block_post_init_ok(b)}

\* ... and the block of the miner's last search, to search again.
MinerInputs ==
    MinerBlocks \cup (IF 0 \in DOMAIN objects THEN {objects[0]} ELSE {})

(***************************************************************************)
(* Miner.mine_blockchain: rounds of assembling, searching and committing.  *)
(***************************************************************************)
\* The nonces of the range first..last-1 that satisfy the block's difficulty.
RangeHits(block, first, last) ==
    {n \in first..(last - 1) : is_hash_valid([block EXCEPT !.nonce = n])}

\* The nonce a task reports for its range: the first hit (_mine_range).
FirstHit(block, first, last) ==
    CHOOSE n \in RangeHits(block, first, last) :
        \A k \in RangeHits(block, first, last) : n <= k

\* Mutant of mine_block_parallel: a success is not counted in the statistics.
mine_block_parallel_uncounted(block, stats, num_workers) ==
    IF copy_block_raises(block)
    THEN {[raised |-> TRUE, found |-> FALSE, block |-> block, stats |-> stats]}
    ELSE LET winners ==
                 {FirstHit(block, start_nonce(i, num_workers),
                           end_nonce(i, num_workers)) :
                      i \in {w \in 0..(num_workers - 1) :
                                RangeHits(block, start_nonce(w, num_workers),
                                          end_nonce(w, num_workers)) # {}}}
         IN IF winners = {}
            THEN {[raised |-> FALSE, found |-> FALSE, block |-> block,
                   stats |-> stats]}
            ELSE {[raised |-> FALSE, found |-> TRUE,
                   block |-> [block EXCEPT !.nonce = n],
                   stats |-> stats] : n \in winners}

\* The outcomes of a whole call of mine_block_parallel (lines 112-156) on a
\* block, by a miner with the statistics stats: the task whose result the
\* calling thread takes first is any task with a hit in its range.
mine_block_parallel(block, stats, num_workers) ==
    IF copy_block_raises(block)
    THEN {[raised |-> TRUE, found |-> FALSE, block |-> block, stats |-> stats]}
    ELSE LET winners ==
                 {FirstHit(block, start_nonce(i, num_workers),
                           end_nonce(i, num_workers)) :
                      i \in {w \in 0..(num_workers - 1) :
                                RangeHits(block, start_nonce(w, num_workers),
                                          end_nonce(w, num_workers)) # {}}}
         IN IF winners = {}
            THEN {[raised |-> FALSE, found |-> FALSE, block |-> block,
                   stats |-> stats]}
            ELSE {[raised |-> FALSE, found |-> TRUE,
                   block |-> [block EXCEPT !.nonce = n],
                   stats |-> [blocks_mined |-> stats.blocks_mined + 1,
                              total_hashes |-> stats.total_hashes + n + 1]] :
                      n \in winners}

\* mining_method(new_block) of mine_blockchain (lines 255-259); the number
\* of workers is os.cpu_count() of the machine.
mining_method(block, stats, use_parallel) ==
    IF use_parallel
    THEN UNION {mine_block_parallel(block, stats, n) : n \in NumWorkers}
    ELSE {mine_block(block, stats)}

\* The num_blocks arguments of mine_blockchain.
NumBlocks == {0, 1, 2}

\* The cap on the chain for the rounds of mine_blockchain.
MaxLoopChain == MaxChain + 1

(***************************************************************************)
(* samplechain.legacy.getLatestBlock, which builds a ledger of its own     *)
(* (difficulty 4, mining_reward 0) and a miner (max_nonce 1000000), and    *)
(* the original getLatestBlock of SampleChain.py.  A triple is a sequence  *)
(* of integers; startBalances is a sequence, address i at position i + 1.  *)
(***************************************************************************)
\* Mutant of legacy_admit: a triple that is not of length 3 is unpacked all
\* the same, which raises.
legacy_admit_strict(pending, bal, tx_data) ==
    IF Len(tx_data) # 3 THEN [raised |-> TRUE, pending |-> pending]
    ELSE LET tx == Transaction(tx_data[1], tx_data[2], tx_data[3], 0)
         IN IF ~post_init_ok(tx) THEN [raised |-> FALSE, pending |-> pending]
            ELSE IF ~is_transaction_valid(tx, bal)
                 THEN [raised |-> FALSE, pending |-> pending]
                 ELSE [raised |-> FALSE, pending |-> Append(pending, tx)]

\* One turn of the loop over pendingTransactions (legacy.py lines 47-58):
\* whether an exception leaves the function, and the queue afterwards.
legacy_admit(pending, bal, tx_data) ==
    IF Len(tx_data) # 3 THEN [raised |-> FALSE, pending |-> pending]
    ELSE LET tx == Transaction(tx_data[1], tx_data[2], tx_data[3], 0)
         IN IF ~post_init_ok(tx) THEN [raised |-> FALSE, pending |-> pending]
            ELSE IF ~is_transaction_valid(tx, bal)
                 THEN [raised |-> FALSE, pending |-> pending]
                 ELSE [raised |-> FALSE, pending |-> Append(pending, tx)]

RECURSIVE LegacyAdmitLoop(_, _, _)
LegacyAdmitLoop(pending, bal, data) ==
    IF data = << >> THEN [raised |-> FALSE, pending |-> pending]
    ELSE LET r == legacy_admit(pending, bal, Head(data))
         IN IF r.raised THEN r
            ELSE LegacyAdmitLoop(r.pending, bal, Tail(data))

\* The string of line 93, as the tuple of its four parts.
legacy_format(block) ==
    <<calculate_hash(block), block.previous_hash, block.nonce,
      [i \in 1..Len(block.transactions) |->
          <<block.transactions[i].from_address,
            block.transactions[i].to_address,
            block.transactions[i].value>>]>>

\* The while loop of lines 63-93 on the ledger (c, pending, bal).  The
\* digest of the model does not tell which SHA-256 hashes start with four
\* zeros, so the outcome of miner.mine_block is given from outside: the
\* first luck searches succeed and leave the nonce found, the next fails.
\* rounds lists, for every turn that committed a block, the length of the
\* queue before and after.
RECURSIVE LegacyLoop(_, _, _, _, _, _, _, _, _)
LegacyLoop(c, pending, bal, blockSize, latest, rounds, luck, found, ts) ==
    LET done == [raised |-> FALSE, value |-> latest, rounds |-> rounds,
                 chain |-> c, pending |-> pending, exhausted |-> FALSE]
    IN IF pending = << >> THEN done
       ELSE LET valid_transactions == ValidateLoop(pending, << >>, bal, blockSize)
                block == Block(Len(c), valid_transactions, ts,
                               calculate_hash(c[Len(c)]), 0, 4)
                user_transactions ==
                    SelectSeq(block.transactions,
                              LAMBDA tx : tx.from_address # -1)
                mined == [block EXCEPT !.transactions = user_transactions,
                                       !.nonce = found]
            IN IF valid_transactions = << >> THEN done
               ELSE IF user_transactions = << >> THEN done
               ELSE IF luck = 0 THEN [done EXCEPT !.exhausted = TRUE]
               ELSE IF \/ mined.index # Len(c)
                       \/ mined.previous_hash # calculate_hash(c[Len(c)])
                       \/ ~ReplayLoop(mined.transactions, bal).ok
                    THEN [done EXCEPT !.raised = TRUE]
               ELSE LegacyLoop(Append(c, mined),
                               remove_processed(pending, mined.transactions),
                               apply_transactions(bal, mined.transactions),
                               blockSize, legacy_format(mined),
                               Append(rounds,
                                      <<Len(pending),
                                        Len(remove_processed(pending,
                                                mined.transactions))>>),
                               luck - 1, found, ts)

\* samplechain.legacy.getLatestBlock: "" is the empty tuple.
legacy_getLatestBlock(startBalances, pendingTransactions, blockSize, luck, found, ts) ==
    LET legacy_balances ==
            [i \in 0..(Len(startBalances) - 1) |-> startBalances[i + 1]]
        admission == LegacyAdmitLoop(<< >>, legacy_balances, pendingTransactions)
    IN IF admission.raised
       THEN [raised |-> TRUE, value |-> << >>, rounds |-> << >>,
             chain |-> <<create_genesis_block(ts)>>, pending |-> << >>,
             exhausted |-> FALSE, admitted |-> << >>]
       ELSE [admitted |-> admission.pending] @@
            LegacyLoop(<<create_genesis_block(ts)>>, admission.pending,
                       legacy_balances, blockSize, << >>, << >>, luck, found, ts)

\* list[i] of Python: an index from -len(list) to len(list) - 1.
PyIndexOk(list, i) == i >= -Len(list) /\ i < Len(list)

PyIndex(list, i) == IF i >= 0 THEN i + 1 ELSE Len(list) + i + 1

\* updateBalances of SampleChain.py (lines 53-55).
updateBalances(startBalances, tx) ==
    LET credited == [startBalances EXCEPT ![PyIndex(startBalances, tx[2])] =
                         startBalances[PyIndex(startBalances, tx[2])] + tx[3]]
    IN [credited EXCEPT ![PyIndex(startBalances, tx[1])] =
            credited[PyIndex(startBalances, tx[1])] - tx[3]]

\* validateTransactions of SampleChain.py (lines 42-51): an IndexError
\* leaves the function when a triple is too short or an address is no
\* index of startBalances.
RECURSIVE validateTransactions(_, _, _, _, _)
validateTransactions(startBalances, pendingTransactions, blockSize, approvedTransactions, count) ==
    IF ~(count < blockSize /\ pendingTransactions # << >>)
    THEN [raised |-> FALSE, startBalances |-> startBalances,
          pendingTransactions |-> pendingTransactions,
          approvedTransactions |-> approvedTransactions]
    ELSE LET tx == Head(pendingTransactions)
             failed == [raised |-> TRUE, startBalances |-> startBalances,
                        pendingTransactions |-> pendingTransactions,
                        approvedTransactions |-> approvedTransactions]
         IN IF Len(tx) < 3 THEN failed
            ELSE IF ~PyIndexOk(startBalances, tx[1]) THEN failed
            ELSE IF startBalances[PyIndex(startBalances, tx[1])] >= tx[3]
                 THEN IF ~PyIndexOk(startBalances, tx[2]) THEN failed
                      ELSE validateTransactions(
                               updateBalances(startBalances, tx),
                               Tail(pendingTransactions), blockSize,
                               Append(approvedTransactions, tx), count + 1)
                 ELSE validateTransactions(startBalances,
                          Tail(pendingTransactions), blockSize,
                          approvedTransactions, count + 1)

\* The loop of the original getLatestBlock (lines 11-20); findNonce searches
\* without a bound and is taken to return.  latestBlock is << >> while it
\* is unbound, and returning it then raises UnboundLocalError.
RECURSIVE OriginalLoop(_, _, _, _)
OriginalLoop(startBalances, pendingTransactions, blockSize, latestBlock) ==
    LET done == IF latestBlock = << >>
                THEN [raised |-> TRUE, transactions |-> << >>]
                ELSE [raised |-> FALSE, transactions |-> latestBlock[1]]
    IN IF pendingTransactions = << >> THEN done
       ELSE LET r == validateTransactions(startBalances, pendingTransactions,
                                          blockSize, << >>, 0)
            IN IF r.raised THEN [raised |-> TRUE, transactions |-> << >>]
               ELSE IF r.approvedTransactions = << >> THEN done
               ELSE OriginalLoop(r.startBalances, r.pendingTransactions,
                                 blockSize, <<r.approvedTransactions>>)

\* SampleChain.getLatestBlock: whether it raises, and the transactions of
\* the block in the string it returns.
original_getLatestBlock(startBalances, pendingTransactions, blockSize) ==
    OriginalLoop(startBalances, pendingTransactions, blockSize, << >>)

\* The arguments of getLatestBlock.
StartBalances == {<<2, 0>>, <<1, 2>>}

Triples == {<<0, 1, 2>>, <<1, 0, 2>>, <<0, 1, 1>>, <<0, 1>>, <<0, 1, 0>>}

MaxTriples == 3

TripleLists == UNION {[1..n -> Triples] : n \in 0..MaxTriples}

LegacyBlockSizes == {0, 1, 2}

(***************************************************************************)
(* Values a caller constructs and the static functions it calls on them.   *)
(***************************************************************************)
\* The arguments of the Transaction constructor.
FromAddresses == {-2, -1, 0, 1}
ToAddresses == {-1, 0, 1}
Values == {0, 2}
Fees == {-1, 0}

\* tx.<field> = v on a frozen dataclass: FrozenInstanceError, the object is
\* as it was.
frozen_setattr(t, field, v) == t

\* The arguments of the Block constructor.
BlockIndexes == {-1, 0, 1}
BlockDifficulties == {-1, 0, 1, 2}

\* Transaction.calculate_hash: the SHA256 digest of the five fields.
tx_hash(t) == <<t.from_address, t.to_address, t.value, t.fee, t.timestamp>>

\* hashlib.sha256((left + right).encode()).hexdigest()
sha256_pair(left, right) == <<left, right>>

\* Mutant of MerkleLevel: the last hash of an odd level goes up as it is.
RECURSIVE MerkleLevel_carry(_)
MerkleLevel_carry(hashes) ==
    IF hashes = << >> THEN << >>
    ELSE IF Len(hashes) = 1 THEN hashes
    ELSE <<sha256_pair(hashes[1], hashes[2])>>
             \o MerkleLevel_carry(SubSeq(hashes, 3, Len(hashes)))

\* get_merkle_root lines 115-125: one level of the tree from the one below.
RECURSIVE MerkleLevel(_)
MerkleLevel(hashes) ==
    IF hashes = << >> THEN << >>
    ELSE LET left == hashes[1]
             right == IF 1 < Len(hashes) THEN hashes[2] ELSE left
         IN <<sha256_pair(left, right)>>
                \o MerkleLevel(SubSeq(hashes, 3, Len(hashes)))

\* get_merkle_root line 114: while len(hashes) > 1.
RECURSIVE MerkleLoop(_)
MerkleLoop(hashes) ==
    IF Len(hashes) > 1 THEN MerkleLoop(MerkleLevel(hashes)) ELSE hashes[1]

\* Block.get_merkle_root on the block's transactions.
get_merkle_root(transactions) ==
    IF transactions = << >> THEN ZeroHash
    ELSE MerkleLoop([i \in 1..Len(transactions) |-> tx_hash(transactions[i])])

MerkleTransactions ==
    {Transaction(0, 1, 2, 0), Transaction(1, 0, 1, 0), Transaction(0, 1, 2, 1)}

MerkleLists == UNION {[1..n -> MerkleTransactions] : n \in 0..MaxTransactions}

\* Miner.calculate_difficulty_adjustment.  The mean sum / k is compared with
\* target_time * 0.5 and target_time * 2 as 2 * sum with target_time * k and
\* sum with 2 * target_time * k.
calculate_difficulty_adjustment(blocks, target_time) ==
    IF Len(blocks) < 2
    THEN IF blocks # << >> THEN blocks[1].difficulty ELSE 4
    ELSE LET sum[i \in 1..Len(blocks)] ==
                 IF i = 1 THEN 0
                 ELSE sum[i - 1] + (blocks[i].timestamp - blocks[i - 1].timestamp)
             total == sum[Len(blocks)]
             k == Len(blocks) - 1
             current_difficulty == blocks[Len(blocks)].difficulty
         IN IF 2 * total < target_time * k
            THEN IF current_difficulty + 1 < 8 THEN current_difficulty + 1 ELSE 8
            ELSE IF total > target_time * 2 * k
            THEN IF current_difficulty - 1 > 1 THEN current_difficulty - 1 ELSE 1
            ELSE current_difficulty

\* The blocks handed to calculate_difficulty_adjustment and its target_time.
AdjustmentBlocks ==
    UNION {{[i \in 1..n |-> Block(i - 1, << >>, ts[i], ZeroHash, 0,
                                  IF i = n THEN d ELSE 1)] :
                ts \in [1..n -> {0, 1, 6}], d \in {1, 2, 8, 9}} :
               n \in 0..MaxBlocks}

TargetTimes == {2}

\* mine_block_parallel lines 122-126: the (start_nonce, end_nonce) pairs of
\* the tasks submitted, in the order of submission.
nonce_ranges(num_workers) ==
    [i \in 1..num_workers |->
        <<start_nonce(i - 1, num_workers), end_nonce(i - 1, num_workers)>>]

WorkerCounts == 1..(max_nonce + 2)

(***************************************************************************)
(* Blockchain.get_balance, save_to_file and load_from_file.                *)
(***************************************************************************)
\* self.balances[address] on a defaultdict(int): a missing key is inserted
\* with the value 0.
balances_after_get(bal, address) == Add(bal, address, 0)

QueryAddresses == {0, 3}

\* json.dump writes the integer key of a dict as a string, int() reads it.
str_of_int(a) == <<"str", a>>

int_of_str(text) == text[2]

\* Transaction.to_dict and Transaction.from_dict; raised stands for the
\* ValueError of the constructor.
tx_to_dict(t) ==
    [from_address |-> t.from_address, to_address |-> t.to_address,
     value |-> t.value, fee |-> t.fee, timestamp |-> t.timestamp,
     hash |-> tx_hash(t)]

tx_from_dict(data) ==
    LET t == [Transaction(data.from_address, data.to_address, data.value,
                          data.fee) EXCEPT !.timestamp = data.timestamp]
    IN [raised |-> ~post_init_ok(t), value |-> t]

\* Block.to_dict and Block.from_dict; the totals of to_dict (total_value,
\* total_fees), which from_dict does not read, are left out.
block_to_dict(b) ==
    [index |-> b.index, timestamp |-> b.timestamp,
     previous_hash |-> b.previous_hash, nonce |-> b.nonce,
     difficulty |-> b.difficulty, hash |-> calculate_hash(b),
     merkle_root |-> get_merkle_root(b.transactions),
     transaction_count |-> Len(b.transactions),
     transactions |-> [i \in 1..Len(b.transactions) |->
                          tx_to_dict(b.transactions[i])]]

block_from_dict(data) ==
    LET txs == [i \in 1..Len(data.transactions) |->
                   tx_from_dict(data.transactions[i])]
        b == Block(data.index,
                   [i \in 1..Len(txs) |-> txs[i].value],
                   data.timestamp, data.previous_hash, data.nonce,
                   data.difficulty)
    IN [raised |-> \/ \E i \in 1..Len(txs) : txs[i].raised
                   \/ ~block_post_init_ok(b),
        value |-> b]

\* Blockchain.save_to_file: the data written, as json.load reads it back.
save_to_file ==
    [chain |-> [i \in 1..Len(chain) |-> block_to_dict(chain[i])],
     pending_transactions |->
         [i \in 1..Len(pending_transactions) |->
             tx_to_dict(pending_transactions[i])],
     balances |-> [k \in {str_of_int(a) : a \in DOMAIN balances} |->
                      balances[int_of_str(k)]],
     difficulty |-> difficulty,
     mining_reward |-> mining_reward]

\* Blockchain.load_from_file: the ledger built from the data, or the
\* exception of a constructor.
load_from_file(data) ==
    LET blocks == [i \in 1..Len(data.chain) |-> block_from_dict(data.chain[i])]
        txs == [i \in 1..Len(data.pending_transactions) |->
                   tx_from_dict(data.pending_transactions[i])]
    IN IF \/ \E i \in 1..Len(blocks) : blocks[i].raised
          \/ \E i \in 1..Len(txs) : txs[i].raised
       THEN [raised |-> TRUE, ledger |-> << >>]
       ELSE [raised |-> FALSE,
             ledger |->
                 <<[chain |-> [i \in 1..Len(blocks) |-> blocks[i].value],
                    pending_transactions |->
                        [i \in 1..Len(txs) |-> txs[i].value],
                    balances |-> [a \in {int_of_str(k) :
                                            k \in DOMAIN data.balances} |->
                                     data.balances[str_of_int(a)]],
                    difficulty |-> data.difficulty,
                    mining_reward |-> data.mining_reward]>>]

\* The lists a caller hands to validate_transactions_for_block directly.
ValidateLists ==
    LET tB == Transaction(0, 1, 2, 0)
        tC == Transaction(1, 0, 1, 0)
    IN {<<tC, tB>>, <<tB, tB, tC>>}

(***************************************************************************)
(* State machine.                                                          *)
(***************************************************************************)
Init ==
    /\ \E ts \in Timestamps : chain = <<create_genesis_block(ts)>>
    /\ pending_transactions = << >>
    /\ initial_balances \in InitialBalances
    /\ balances = initial_balances
    /\ difficulty \in Difficulties
    /\ mining_reward \in Rewards
    /\ candidates = {}
    /\ admitted = << >>
    /\ mining_stats = NoStats
    /\ objects = << >>
    /\ futures = << >>
    /\ call = Idle
    /\ ret = Result("init", TRUE, << >>, << >>, FALSE)
    /\ old = Snapshot

\* Blockchain.add_transaction.
add_transaction(transaction) ==
    /\ Len(pending_transactions) < MaxPending
    /\ IF ~is_transaction_valid(transaction, balances)
       THEN /\ ret' = Result("add_transaction", FALSE, <<transaction>>, << >>, FALSE)
            /\ UNCHANGED <<pending_transactions, admitted>>
       ELSE /\ pending_transactions' = Append(pending_transactions, transaction)
            /\ admitted' = Add(admitted, transaction, 1)
            /\ ret' = Result("add_transaction", TRUE, <<transaction>>, << >>, FALSE)
    /\ old' = Snapshot
    /\ UNCHANGED <<chain, balances, difficulty, mining_reward, initial_balances,
                   candidates>>
    /\ UNCHANGED miner_vars

\* A call of mine_pending_transactions; the caller keeps the block returned.
MinePending(miner_address, block_size, ts) ==
    LET result == mine_pending_transactions(miner_address, block_size, ts)
    IN /\ Cardinality(candidates) < MaxCandidates
       /\ ret' = [Result("mine_pending_transactions", result # << >>, << >>,
                         result, FALSE) EXCEPT !.block_size = block_size,
                                               !.miner_address = miner_address]
       /\ candidates' = candidates \cup {result[i] : i \in 1..Len(result)}
       /\ pending_transactions' =
              IF pending_transactions = << >> THEN pending_transactions
              ELSE pending_after_validation(pending_transactions, block_size)
       /\ old' = Snapshot
       /\ UNCHANGED <<chain, balances, difficulty, mining_reward,
                      initial_balances, admitted>>
       /\ UNCHANGED miner_vars

\* Miner(max_nonce).mine_block(c) on a block the caller holds, by a miner
\* made for the call: its statistics go with it.
MineCandidate ==
    \E c \in candidates :
        LET r == mine_block(c, NoStats)
        IN /\ candidates' = (candidates \ {c}) \cup {r.block}
           /\ ret' = [Result("mine_block", r.found, << >>, <<r.block>>, FALSE)
                          EXCEPT !.arg = <<c>>, !.raised = r.raised]
           /\ old' = Snapshot
           /\ UNCHANGED <<chain, pending_transactions, balances, difficulty,
                          mining_reward, initial_balances, admitted>>
           /\ UNCHANGED miner_vars

\* Blockchain.add_block; the caller gives the block away with the call.
\* MaxChain caps the growth of the chain; a rejection is always possible.
add_block(block, skip_mining) ==
    /\ is_block_valid(block, skip_mining) => Len(chain) < MaxChain
    /\ IF ~is_block_valid(block, skip_mining)
       THEN /\ ret' = Result("add_block", FALSE, << >>, <<block>>, skip_mining)
            /\ balances' = balances_after_validation(block, skip_mining)
            /\ UNCHANGED <<chain, pending_transactions>>
       ELSE /\ balances' = apply_transactions(
                               balances_after_validation(block, skip_mining),
                               block.transactions)
            /\ chain' = Append(chain, block)
            /\ pending_transactions' =
                   remove_processed(pending_transactions, block.transactions)
            /\ ret' = Result("add_block", TRUE, << >>, <<block>>, skip_mining)
    /\ candidates' = candidates \ {block}
    /\ old' = Snapshot
    /\ UNCHANGED <<difficulty, mining_reward, initial_balances, admitted>>
    /\ UNCHANGED miner_vars

\* miner.mine_block(b) by the miner.
MineBlock ==
    \E b \in MinerInputs :
        /\ call.pc = "idle"
        /\ mining_stats.blocks_mined < MaxMined
        /\ LET r == mine_block(b, mining_stats)
           IN /\ mining_stats' = r.stats
              /\ objects' = (0 :> r.block)
              /\ ret' = [Result("mine_block", r.found, << >>, <<r.block>>, FALSE)
                             EXCEPT !.arg = <<b>>, !.raised = r.raised]
        /\ futures' = << >>
        /\ old' = Snapshot
        /\ UNCHANGED call
        /\ UNCHANGED ledger_vars

\* miner.mine_block_parallel(b, num_workers) is called (lines 112-118).
ParallelBegin ==
    \E b \in MinerInputs, num_workers \in NumWorkers :
        /\ call.pc = "idle"
        /\ mining_stats.blocks_mined < MaxMined
        /\ objects' = (0 :> b)
        /\ futures' = << >>
        /\ call' = [Idle EXCEPT !.pc = "submit", !.num_workers = num_workers,
                                !.arg = <<b>>]
        /\ ret' = Result("calling", FALSE, << >>, << >>, FALSE)
        /\ old' = Snapshot
        /\ UNCHANGED mining_stats
        /\ UNCHANGED ledger_vars

\* One turn of the submit loop (lines 121-133): the block is copied, which
\* may raise, and the task is submitted.
Submit ==
    /\ call.pc = "submit"
    /\ LET i == Len(futures)
           obj == copy_block(0, i + 1)
       IN IF copy_block_raises(objects[0])
          THEN /\ call' = [call EXCEPT !.pc = "shutdown", !.raised = TRUE]
               /\ UNCHANGED <<objects, futures>>
          ELSE /\ objects' = IF obj \in DOMAIN objects THEN objects
                             ELSE objects @@ (obj :> objects[0])
               /\ futures' = Append(futures,
                                 Future(obj, start_nonce(i, call.num_workers),
                                        end_nonce(i, call.num_workers)))
               /\ call' = IF i + 1 >= call.num_workers
                          THEN [call EXCEPT !.pc = "collect"]
                          ELSE call
    /\ UNCHANGED <<mining_stats, ret, old>>
    /\ UNCHANGED ledger_vars

\* A thread of the pool takes a submitted task.
WorkerStart ==
    \E j \in 1..Len(futures) :
        /\ futures[j].state = "PENDING"
        /\ futures' = [futures EXCEPT ![j].state = "RUNNING"]
        /\ UNCHANGED <<mining_stats, objects, call, ret, old>>
        /\ UNCHANGED ledger_vars

\* A running task tries its next nonce (_mine_range, lines 174-181).
WorkerStep ==
    \E j \in 1..Len(futures) :
        /\ futures[j].state = "RUNNING"
        /\ LET r == mine_range(objects, futures[j])
           IN /\ objects' = r.objects
              /\ futures' = [futures EXCEPT ![j] = r.future]
        /\ UNCHANGED <<mining_stats, call, ret, old>>
        /\ UNCHANGED ledger_vars

\* The calling thread takes a completed future from as_completed (lines
\* 136-154): the first result that is not None is written to the block.
Collect ==
    /\ call.pc = "collect"
    /\ \E j \in 1..Len(futures) :
           /\ futures[j].state = "FINISHED"
           /\ ~futures[j].yielded
           /\ IF futures[j].result # << >>
              THEN /\ objects' = [objects EXCEPT ![0].nonce = futures[j].result[1]]
                   /\ futures' =
                          [k \in 1..Len(futures) |->
                              IF k = j THEN [futures[k] EXCEPT !.yielded = TRUE]
                              ELSE IF futures[k].state = "PENDING"
                                   THEN [futures[k] EXCEPT !.state = "CANCELLED"]
                                   ELSE futures[k]]
                   /\ mining_stats' =
                          [blocks_mined |-> mining_stats.blocks_mined + 1,
                           total_hashes |-> mining_stats.total_hashes
                                              + futures[j].result[1] + 1]
                   /\ call' = [call EXCEPT !.pc = "shutdown", !.retval = TRUE,
                                           !.winner = j]
              ELSE /\ futures' = [futures EXCEPT ![j].yielded = TRUE]
                   /\ call' = IF \A k \in 1..Len(futures) :
                                     k # j => futures[k].yielded
                              THEN [call EXCEPT !.pc = "shutdown"]
                              ELSE call
                   /\ UNCHANGED <<objects, mining_stats>>
    /\ UNCHANGED <<ret, old>>
    /\ UNCHANGED ledger_vars

\* Mutant of Return: the call returns without waiting for the running tasks.
Return_nowait ==
    /\ call.pc = "shutdown"
    /\ ret' = [Result("mine_block_parallel", call.retval, << >>, <<objects[0]>>,
                      FALSE)
                  EXCEPT !.arg = call.arg, !.raised = call.raised]
    /\ call' = Idle
    /\ UNCHANGED <<mining_stats, objects, futures, old>>
    /\ UNCHANGED ledger_vars

\* The executor is shut down, which waits for the running tasks, and the
\* call returns or raises (lines 118, 154, 156).
Return ==
    /\ call.pc = "shutdown"
    /\ \A j \in 1..Len(futures) : futures[j].state \in {"FINISHED", "CANCELLED"}
    /\ ret' = [Result("mine_block_parallel", call.retval, << >>, <<objects[0]>>,
                      FALSE)
                  EXCEPT !.arg = call.arg, !.raised = call.raised]
    /\ call' = Idle
    /\ UNCHANGED <<mining_stats, objects, futures, old>>
    /\ UNCHANGED ledger_vars

\* miner.mine_blockchain(blockchain, miner_address, num_blocks, block_size,
\* use_parallel) is called (lines 249-250).
MineBlockchainBegin ==
    \E m \in MinerAddresses, n \in NumBlocks, bs \in BlockSizes,
       par \in BOOLEAN :
        /\ call.pc = "idle"
        /\ call' = [pc |-> "mine_blockchain", miner_address |-> m,
                    num_blocks |-> n, block_size |-> bs, use_parallel |-> par,
                    round |-> 0, blocks_mined |-> 0]
        /\ ret' = Result("calling", FALSE, << >>, << >>, FALSE)
        /\ old' = Snapshot
        /\ UNCHANGED <<mining_stats, objects, futures>>
        /\ UNCHANGED ledger_vars

\* The value returned by mine_blockchain (line 267), with the block whose
\* search failed, if one did.
MineBlockchainReturn(failed) ==
    /\ ret' = [Result("mine_blockchain", TRUE, << >>, failed, FALSE)
                  EXCEPT !.arg = <<call.miner_address, call.num_blocks,
                                   call.block_size, call.use_parallel>>,
                         !.value = <<call.blocks_mined>>]
    /\ call' = Idle

\* One turn of the loop of mine_blockchain (lines 251-265), or the return
\* after the last one.
MineBlockchainRound ==
    /\ call.pc = "mine_blockchain"
    /\ IF call.round >= call.num_blocks
       THEN /\ MineBlockchainReturn(<< >>)
            /\ UNCHANGED <<chain, pending_transactions, balances, mining_stats>>
       ELSE \E ts \in Timestamps :
            LET new_block ==
                    mine_pending_transactions(call.miner_address,
                                              call.block_size, ts)
            IN IF new_block = << >>
               THEN /\ MineBlockchainReturn(<< >>)
                    /\ UNCHANGED <<chain, pending_transactions, balances,
                                   mining_stats>>
               ELSE \E r \in mining_method(new_block[1], mining_stats,
                                           call.use_parallel) :
                    /\ mining_stats' = r.stats
                    /\ IF r.raised
                       THEN /\ ret' = [Result("mine_blockchain", FALSE, << >>,
                                              <<r.block>>, FALSE)
                                          EXCEPT !.raised = TRUE]
                            /\ call' = Idle
                            /\ UNCHANGED <<chain, pending_transactions, balances>>
                       ELSE IF ~r.found
                       THEN /\ MineBlockchainReturn(<<r.block>>)
                            /\ UNCHANGED <<chain, pending_transactions, balances>>
                       ELSE IF ~is_block_valid(r.block, FALSE)
                       THEN /\ ret' = [Result("mine_blockchain", FALSE, << >>,
                                              <<r.block>>, FALSE)
                                          EXCEPT !.raised = TRUE]
                            /\ call' = Idle
                            /\ UNCHANGED <<chain, pending_transactions, balances>>
                       ELSE /\ Len(chain) < MaxLoopChain
                            /\ mining_stats.blocks_mined < MaxMined
                            /\ balances' = apply_transactions(
                                   balances_after_validation(r.block, FALSE),
                                   r.block.transactions)
                            /\ chain' = Append(chain, r.block)
                            /\ pending_transactions' =
                                   remove_processed(
                                       pending_after_validation(
                                           pending_transactions, call.block_size),
                                       r.block.transactions)
                            /\ call' = [call EXCEPT
                                           !.round = call.round + 1,
                                           !.blocks_mined = call.blocks_mined + 1]
                            /\ UNCHANGED ret
    /\ UNCHANGED <<objects, futures, old>>
    /\ UNCHANGED <<difficulty, mining_reward, initial_balances, candidates,
                   admitted>>

\* getLatestBlock(startBalances, pendingTransactions, blockSize) is called
\* in both implementations.  A call builds its own ledger and leaves
\* nothing behind: one call in a behaviour.
GetLatestBlock ==
    /\ ret.op = "init"
    /\ \E startBalances \in StartBalances, pendingTransactions \in TripleLists,
          blockSize \in LegacyBlockSizes, luck \in 0..MaxTriples,
          found \in {0, max_nonce - 1}, ts \in Timestamps :
        /\ ret' = [Result("getLatestBlock", TRUE, << >>, << >>, FALSE)
                      EXCEPT !.arg = <<startBalances, pendingTransactions,
                                       blockSize, luck>>,
                             !.value =
                                 [legacy |->
                                      legacy_getLatestBlock(startBalances,
                                          pendingTransactions, blockSize, luck,
                                          found, ts),
                                  original |->
                                      original_getLatestBlock(startBalances,
                                          pendingTransactions, blockSize)]]
        /\ old' = Snapshot
        /\ UNCHANGED ledger_vars
        /\ UNCHANGED miner_vars

\* What a caller can make of a committed block by assigning one of its
\* hashed fields (Block is a mutable dataclass, block.py lines 34-38).
TamperedBlocks(b) ==
    {[b EXCEPT !.index = b.index + 1],
     [b EXCEPT !.timestamp = b.timestamp + 1],
     [b EXCEPT !.previous_hash =
          IF b.previous_hash = ZeroHash THEN calculate_hash(b) ELSE ZeroHash],
     [b EXCEPT !.nonce = b.nonce + 1],
     [b EXCEPT !.transactions = Append(b.transactions, Transaction(0, 1, 2, 0))]}

\* A caller assigns a hashed field of the committed block chain[i].
Tamper ==
    \E i \in 1..Len(chain) :
        \E t \in TamperedBlocks(chain[i]) :
            /\ chain' = [chain EXCEPT ![i] = t]
            /\ ret' = [Result("tamper", TRUE, << >>, <<t>>, FALSE)
                           EXCEPT !.arg = <<chain[i]>>]
            /\ old' = Snapshot
            /\ UNCHANGED <<pending_transactions, balances, difficulty,
                           mining_reward, initial_balances, candidates,
                           admitted>>
            /\ UNCHANGED miner_vars

\* Transaction(from, to, value, fee): the object, or ValueError.
ConstructTransaction ==
    \E from \in FromAddresses, to \in ToAddresses, value \in Values,
       fee \in Fees :
        LET t == Transaction(from, to, value, fee)
        IN /\ ret' = [Result("Transaction", post_init_ok(t),
                             IF post_init_ok(t) THEN <<t>> ELSE << >>,
                             << >>, FALSE)
                          EXCEPT !.arg = <<from, to, value, fee>>,
                                 !.raised = ~post_init_ok(t)]
           /\ old' = Snapshot
           /\ UNCHANGED ledger_vars
           /\ UNCHANGED miner_vars

\* The caller assigns a field of the transaction it has just constructed.
AssignField ==
    \E field \in {"value", "from_address"}, v \in Values :
        /\ ret.op = "Transaction"
        /\ ret.tx # << >>
        /\ ret' = [Result("setattr", FALSE,
                          <<frozen_setattr(ret.tx[1], field, v)>>, << >>, FALSE)
                       EXCEPT !.arg = <<ret.tx[1], field, v>>, !.raised = TRUE]
        /\ old' = Snapshot
        /\ UNCHANGED ledger_vars
        /\ UNCHANGED miner_vars

\* The caller submits the transaction it has just constructed.
SubmitConstructed ==
    /\ ret.op = "Transaction"
    /\ ret.tx # << >>
    /\ add_transaction(ret.tx[1])

\* Block(index, [], difficulty=d): the object, or ValueError.
ConstructBlock ==
    \E index \in BlockIndexes, d \in BlockDifficulties, ts \in Timestamps :
        LET b == Block(index, << >>, ts, ZeroHash, 0, d)
        IN /\ ret' = [Result("Block", block_post_init_ok(b), << >>,
                             IF block_post_init_ok(b) THEN <<b>> ELSE << >>,
                             FALSE)
                          EXCEPT !.arg = <<index, d>>,
                                 !.raised = ~block_post_init_ok(b)]
           /\ old' = Snapshot
           /\ UNCHANGED ledger_vars
           /\ UNCHANGED miner_vars

\* Block(..., transactions).get_merkle_root().
MerkleRoot ==
    \E transactions \in MerkleLists :
        /\ ret' = [Result("get_merkle_root", TRUE, << >>, << >>, FALSE)
                       EXCEPT !.arg = transactions,
                              !.value = get_merkle_root(transactions)]
        /\ old' = Snapshot
        /\ UNCHANGED ledger_vars
        /\ UNCHANGED miner_vars

\* Miner.calculate_difficulty_adjustment(blocks, target_time).
AdjustDifficulty ==
    \E blocks \in AdjustmentBlocks, target_time \in TargetTimes :
        /\ ret' = [Result("calculate_difficulty_adjustment", TRUE, << >>,
                          << >>, FALSE)
                       EXCEPT !.arg = <<blocks, target_time>>,
                              !.value = calculate_difficulty_adjustment(
                                            blocks, target_time)]
        /\ old' = Snapshot
        /\ UNCHANGED ledger_vars
        /\ UNCHANGED miner_vars

\* The nonce ranges mine_block_parallel hands to num_workers workers.
NonceRanges ==
    \E num_workers \in WorkerCounts :
        /\ ret' = [Result("nonce_ranges", TRUE, << >>, << >>, FALSE)
                       EXCEPT !.arg = num_workers,
                              !.value = nonce_ranges(num_workers)]
        /\ old' = Snapshot
        /\ UNCHANGED ledger_vars
        /\ UNCHANGED miner_vars

\* Blockchain.get_balance(address).
GetBalance ==
    \E address \in QueryAddresses :
        /\ ret' = [Result("get_balance", TRUE, << >>, << >>, FALSE)
                       EXCEPT !.arg = address,
                              !.value = Get(balances, address)]
        /\ balances' = balances_after_get(balances, address)
        /\ old' = Snapshot
        /\ UNCHANGED <<chain, pending_transactions, difficulty, mining_reward,
                       initial_balances, candidates, admitted>>
        /\ UNCHANGED miner_vars

\* ledger.save_to_file(f) followed by Blockchain.load_from_file(f).
SaveLoad ==
    LET r == load_from_file(save_to_file)
    IN /\ ret' = [Result("load_from_file", ~r.raised, << >>, << >>, FALSE)
                      EXCEPT !.raised = r.raised, !.value = r.ledger]
       /\ old' = Snapshot
       /\ UNCHANGED ledger_vars
       /\ UNCHANGED miner_vars

\* ledger.validate_transactions_for_block(transactions, block_size), called
\* directly.
ValidateCall ==
    \E transactions \in ValidateLists, block_size \in BlockSizes :
        /\ ret' = [Result("validate_transactions_for_block", TRUE, << >>,
                          << >>, FALSE)
                       EXCEPT !.arg = transactions,
                              !.block_size = block_size,
                              !.value = validate_transactions_for_block(
                                            transactions, block_size)]
        /\ old' = Snapshot
        /\ UNCHANGED ledger_vars
        /\ UNCHANGED miner_vars

AddTransaction == \E t \in Transactions : add_transaction(t)

AssembleBlock ==
    \E m \in MinerAddresses, bs \in BlockSizes, ts \in Timestamps :
        MinePending(m, bs, ts)

AddCandidate == \E c \in candidates, skip \in BOOLEAN : add_block(c, skip)

AddCallerBlock == \E b \in CallerBlocks, skip \in BOOLEAN : add_block(b, skip)

NextMined == AddTransaction \/ AssembleBlock \/ MineCandidate \/ AddCandidate

Next == AddTransaction \/ AddCallerBlock

\* The ledger until its caller tampers with a committed block.
NextTamper == (ret.op # "tamper" /\ Next) \/ (ret.op # "tamper" /\ Tamper)

NextMiner ==
    MineBlock \/ ParallelBegin \/ Submit \/ WorkerStart \/ WorkerStep \/ Collect
        \/ Return

\* The ledger driven with mine_pending_transactions, Miner.mine_block and
\* add_block of the blocks so obtained, which the caller holds in between.
SpecMined == Init /\ [][NextMined]_vars

\* The ledger driven by a caller who hands add_block blocks of any making.
Spec == Init /\ [][Next]_vars

\* The ledger driven by a caller who then assigns a field of a committed
\* block.
SpecTamper == Init /\ [][NextTamper]_vars

\* A miner searching the blocks it is handed, sequentially and in parallel.
SpecMiner == Init /\ [][NextMiner]_vars

\* The same miner with the scheduling of its threads: the calling thread
\* runs its submit loop, its as_completed loop and the exit of the with
\* block whenever it can, the pool has a thread for every task
\* (max_workers = num_workers), and a running task keeps trying nonces.
SpecMinerLive ==
    /\ SpecMiner
    /\ WF_vars(Submit) /\ WF_vars(WorkerStart) /\ WF_vars(WorkerStep)
    /\ WF_vars(Collect) /\ WF_vars(Return)

NextValues == ConstructBlock \/ MerkleRoot \/ AdjustDifficulty \/ NonceRanges

\* A caller constructing blocks and calling the functions that depend on
\* their arguments alone.
SpecValues == Init /\ [][NextValues]_vars

NextConstruct ==
    ConstructTransaction \/ AssignField \/ SubmitConstructed \/ AssembleBlock
        \/ AddCandidate

\* The ledger driven with the transactions its caller constructs.
SpecConstruct == Init /\ [][NextConstruct]_vars

NextQuery == AddTransaction \/ AddCallerBlock \/ GetBalance \/ SaveLoad

\* The ledger of Spec, queried and saved along the way.
SpecQuery == Init /\ [][NextQuery]_vars

\* Transfers small enough for the initial balance to afford several.
SmallTransfers == {Transaction(0, 2, 1, 0), Transaction(0, 1, 2, 0)}

AddSmallTransfer == \E t \in SmallTransfers : add_transaction(t)

\* mine_pending_transactions with any block size, 0 included.
AssembleAnySize ==
    \E m \in MinerAddresses, bs \in {0} \cup BlockSizes, ts \in Timestamps :
        MinePending(m, bs, ts)

NextTransfers == AddSmallTransfer \/ AssembleAnySize \/ AddCandidate

\* The ledger driven with small transfers, blocks assembled from them with
\* any block size, and add_block of the blocks so obtained.
SpecTransfers == Init /\ [][NextTransfers]_vars

AddProvedBlock == \E b \in CallerBlocks : add_block(b, FALSE)

NextProved == AddTransaction \/ AddProvedBlock

\* The ledger driven by a caller who hands add_block blocks of any making,
\* always with the proof of work checked (skip_mining=False).
SpecProved == Init /\ [][NextProved]_vars

NextLegacy == GetLatestBlock

\* A caller of the legacy interface and of the original it replaces.
SpecLegacy == Init /\ [][NextLegacy]_vars

NextRounds ==
    (call.pc = "idle" /\ AddSmallTransfer) \/ (call.pc = "idle" /\ AddTransaction)
        \/ MineBlockchainBegin \/ MineBlockchainRound

\* A ledger and a miner whose caller admits transactions and calls
\* mine_blockchain, nothing else running meanwhile.
SpecRounds == Init /\ [][NextRounds]_vars

NextAssembly ==
    AddTransaction \/ AssembleBlock \/ MineCandidate \/ AddCandidate
        \/ ValidateCall

\* The ledger of SpecMined, with direct calls of
\* validate_transactions_for_block.
SpecAssembly == Init /\ [][NextAssembly]_vars

(***************************************************************************)
(* Vocabulary of the properties.                                           *)
(***************************************************************************)
Cost(t) == t.value + t.fee

IsReward(t) == t.from_address = RewardAddress

NonReward(transactions) == SelectSeq(transactions, LAMBDA t : ~IsReward(t))

\* What address a receives from, and pays in, the transactions before
\* position i of a list.
RECURSIVE ReceivedBefore(_, _, _)
ReceivedBefore(transactions, i, a) ==
    IF i <= 1 THEN 0
    ELSE ReceivedBefore(transactions, i - 1, a)
         + (IF transactions[i - 1].to_address = a
            THEN transactions[i - 1].value ELSE 0)

RECURSIVE SpentBefore(_, _, _)
SpentBefore(transactions, i, a) ==
    IF i <= 1 THEN 0
    ELSE SpentBefore(transactions, i - 1, a)
         + (IF transactions[i - 1].from_address = a
            THEN Cost(transactions[i - 1]) ELSE 0)

\* Every non-reward transaction of the list can be paid at its position when
\* the list is applied in order to the balances bal.
AffordableInOrder(bal, transactions) ==
    \A i \in 1..Len(transactions) :
        LET t == transactions[i]
        IN ~IsReward(t) =>
               Get(bal, t.from_address)
                 + ReceivedBefore(transactions, i, t.from_address)
                 - SpentBefore(transactions, i, t.from_address) >= Cost(t)

LastCall(op) == ret.op = op

(***************************************************************************)
(* C1.  Conservation: with blocks produced by mine_pending_transactions    *)
(* only, the sum of all balances is the sum of the initial balances plus   *)
(* mining_reward times the number of committed non-genesis blocks, fees    *)
(* included.                                                               *)
(***************************************************************************)
C1_Conservation ==
    TotalBalance(balances) =
        TotalBalance(initial_balances) + mining_reward * (Len(chain) - 1)

(***************************************************************************)
(* C2.  Admission: add_transaction(t) succeeds, appending t at the tail of *)
(* the pending queue, iff the committed balance of t.from_address is at    *)
(* least t.value + t.fee, whatever is pending; otherwise it raises and     *)
(* the pending queue, the balances and the chain are unchanged.            *)
(***************************************************************************)
C2_Admission ==
    LastCall("add_transaction") =>
        LET t == ret.tx[1]
        IN /\ ret.ok <=> Get(old.balances, t.from_address) >= t.value + t.fee
           /\ ret.ok =>
                  pending_transactions = Append(old.pending_transactions, t)
           /\ ~ret.ok => pending_transactions = old.pending_transactions
           /\ balances = old.balances
           /\ chain = old.chain

\* A transaction is admitted although it cannot be paid together with one
\* of the same sender that is already pending.
C2_Witness ==
    /\ LastCall("add_transaction")
    /\ ret.ok
    /\ \E i \in 1..Len(old.pending_transactions) :
           LET p == old.pending_transactions[i]
           IN /\ p.from_address = ret.tx[1].from_address
              /\ Cost(p) + Cost(ret.tx[1])
                     > Get(old.balances, p.from_address)

(***************************************************************************)
(* C3.  Per-block double-spend prevention: the non-reward transactions of  *)
(* a block returned by mine_pending_transactions can all be paid when      *)
(* applied in order to the committed balances, so two pending transactions *)
(* that are affordable each on its own but not together are never both in  *)
(* the block; the one left out is still pending.                           *)
(***************************************************************************)
C3_NoDoubleSpendInBlock ==
    (LastCall("mine_pending_transactions") /\ ret.ok) =>
        /\ AffordableInOrder(old.balances, NonReward(ret.block[1].transactions))
        /\ pending_transactions = old.pending_transactions

\* Two pending transactions of one sender, each affordable, not both: the
\* block (block_size 2) holds the first only, the second is still pending.
C3_Witness ==
    /\ LastCall("mine_pending_transactions")
    /\ ret.ok
    /\ ret.block_size >= 2
    /\ Len(old.pending_transactions) = 2
    /\ LET t1 == old.pending_transactions[1]
           t2 == old.pending_transactions[2]
       IN /\ t1.from_address = t2.from_address
          /\ Cost(t1) <= Get(old.balances, t1.from_address)
          /\ Cost(t2) <= Get(old.balances, t2.from_address)
          /\ Cost(t1) + Cost(t2) > Get(old.balances, t1.from_address)
          /\ NonReward(ret.block[1].transactions) = <<t1>>
          /\ pending_transactions = <<t1, t2>>

(***************************************************************************)
(* C4.  Commit atomicity: when add_block raises InvalidBlockError the      *)
(* chain, the balance mapping and the pending queue are as before the      *)
(* call, also when the replay fails after earlier transactions of the      *)
(* block replayed successfully.                                            *)
(***************************************************************************)
C4_CommitAtomicity ==
    (LastCall("add_block") /\ ~ret.ok) =>
        /\ chain = old.chain
        /\ balances = old.balances
        /\ pending_transactions = old.pending_transactions

\* A rejected, well linked block whose first transaction replays and whose
\* second does not.
C4_Witness ==
    /\ LastCall("add_block")
    /\ ~ret.ok
    /\ LET b == ret.block[1]
       IN /\ b.index = Len(old.chain)
          /\ b.previous_hash = calculate_hash(old.chain[Len(old.chain)])
          /\ ret.skip
          /\ Len(b.transactions) >= 2
          /\ ~IsReward(b.transactions[1])
          /\ Cost(b.transactions[1])
                 <= Get(old.balances, b.transactions[1].from_address)
          /\ ~AffordableInOrder(old.balances, b.transactions)

(***************************************************************************)
(* C5.  Chain linkage: in every reachable state, for every i > 0 the       *)
(* previous_hash of chain[i] is the hash of chain[i-1], and is_chain_valid *)
(* returns True.                                                           *)
(***************************************************************************)
C5_ChainLinkage ==
    /\ \A i \in 2..Len(chain) :
           chain[i].previous_hash = calculate_hash(chain[i - 1])
    /\ is_chain_valid(chain, FALSE)

\* A block with transactions was committed on top of the genesis block.
C5_Witness ==
    /\ LastCall("add_block")
    /\ ret.ok
    /\ Len(chain) = Len(old.chain) + 1
    /\ chain[Len(chain)].transactions # << >>
    /\ chain[Len(chain)].previous_hash = calculate_hash(old.chain[Len(old.chain)])

(***************************************************************************)
(* C6.  No overdraft: each non-reward transaction of an accepted block is  *)
(* affordable at its position when the block is applied in order to the    *)
(* committed balances, and no address balance is ever negative.            *)
(***************************************************************************)
C6_NoOverdraft ==
    /\ (LastCall("add_block") /\ ret.ok) =>
           AffordableInOrder(old.balances, ret.block[1].transactions)
    /\ \A a \in DOMAIN balances : balances[a] >= 0

\* An accepted block spends a sender's balance down to exactly zero.
C6_Witness ==
    /\ LastCall("add_block")
    /\ ret.ok
    /\ \E i \in 1..Len(ret.block[1].transactions) :
           LET t == ret.block[1].transactions[i]
           IN /\ ~IsReward(t)
              /\ Get(balances, t.from_address) = 0
              /\ Get(old.balances, t.from_address) > 0

(***************************************************************************)
(* C7.  The chain is append-only and index-contiguous: it starts with the  *)
(* genesis block (index 0, no transactions, all-zero previous_hash,        *)
(* difficulty 0), every operation leaves the previous chain as a prefix of *)
(* the new one, and chain[i].index = i at every position.                  *)
(***************************************************************************)
IsPrefix(s, t) == Len(s) <= Len(t) /\ \A i \in 1..Len(s) : s[i] = t[i]

C7_AppendOnly ==
    /\ Len(chain) >= 1
    /\ chain[1].index = 0
    /\ chain[1].transactions = << >>
    /\ chain[1].previous_hash = ZeroHash
    /\ chain[1].difficulty = 0
    /\ IsPrefix(old.chain, chain)
    /\ \A i \in 1..Len(chain) : chain[i].index = i - 1

\* The chain has just grown by a block.
C7_Witness ==
    /\ LastCall("add_block")
    /\ Len(chain) = Len(old.chain) + 1
    /\ chain[Len(chain)].index = Len(old.chain)
    /\ chain[Len(chain)] = ret.block[1]

(***************************************************************************)
(* C8.  add_block(block, skip_mining) succeeds iff block.index is the      *)
(* chain length, block.previous_hash is the hash of the chain tip,         *)
(* skip_mining is set or the block's hash starts with block.difficulty     *)
(* zeros, and the in-order replay of its non-reward transactions against   *)
(* the committed balances finds each one affordable.                       *)
(***************************************************************************)
C8_AcceptanceCondition ==
    LastCall("add_block") =>
        LET b == ret.block[1]
        IN ret.ok <=>
               /\ b.index = Len(old.chain)
               /\ b.previous_hash = calculate_hash(old.chain[Len(old.chain)])
               /\ ret.skip \/ LeadingZeros(calculate_hash(b)) >= b.difficulty
               /\ AffordableInOrder(old.balances, b.transactions)

\* A block is rejected for its proof-of-work alone.
C8_Witness ==
    /\ LastCall("add_block")
    /\ ~ret.ok
    /\ ~ret.skip
    /\ LET b == ret.block[1]
       IN /\ b.index = Len(old.chain)
          /\ b.previous_hash = calculate_hash(old.chain[Len(old.chain)])
          /\ AffordableInOrder(old.balances, b.transactions)
          /\ b.transactions # << >>
          /\ LeadingZeros(calculate_hash(b)) < b.difficulty

(***************************************************************************)
(* C9.  Effect of a successful add_block: the chain grows by exactly this  *)
(* block at its end; every non-reward transaction debits its sender by     *)
(* value + fee and credits its recipient by value, a reward transaction    *)
(* only credits its recipient; one occurrence of each included             *)
(* transaction leaves the pending queue, and the transactions left         *)
(* pending keep their relative order.                                      *)
(***************************************************************************)
Count(list, x) == Cardinality({i \in 1..Len(list) : list[i] = x})

RECURSIVE IsSubsequence(_, _)
IsSubsequence(s, t) ==
    IF s = << >> THEN TRUE
    ELSE IF t = << >> THEN FALSE
    ELSE IF Head(s) = Head(t) THEN IsSubsequence(Tail(s), Tail(t))
    ELSE IsSubsequence(s, Tail(t))

AddressesOf(transactions) ==
    {transactions[i].from_address : i \in 1..Len(transactions)}
        \cup {transactions[i].to_address : i \in 1..Len(transactions)}

C9_CommitEffect ==
    (LastCall("add_block") /\ ret.ok) =>
        LET b == ret.block[1]
            txs == b.transactions
            n == Len(txs) + 1
        IN /\ chain = Append(old.chain, b)
           /\ \A a \in (DOMAIN balances \cup DOMAIN old.balances
                          \cup AddressesOf(txs)) \ {RewardAddress} :
                  Get(balances, a) =
                      Get(old.balances, a) - SpentBefore(txs, n, a)
                          + ReceivedBefore(txs, n, a)
           /\ RewardAddress \notin DOMAIN balances
           /\ IsSubsequence(pending_transactions, old.pending_transactions)
           /\ \A t \in Elements(old.pending_transactions) \cup Elements(txs) :
                  Count(pending_transactions, t) =
                      IF Count(old.pending_transactions, t) > Count(txs, t)
                      THEN Count(old.pending_transactions, t) - Count(txs, t)
                      ELSE 0

\* A committed block with a reward and a fee-paying transaction; a second
\* pending transaction was not in the block and is still pending.
C9_Witness ==
    /\ LastCall("add_block")
    /\ ret.ok
    /\ Len(old.pending_transactions) = 2
    /\ Len(pending_transactions) = 1
    /\ pending_transactions[1] = old.pending_transactions[2]
    /\ \E i \in 1..Len(ret.block[1].transactions) :
           IsReward(ret.block[1].transactions[i])
    /\ \E i \in 1..Len(ret.block[1].transactions) :
           /\ ~IsReward(ret.block[1].transactions[i])
           /\ ret.block[1].transactions[i].fee > 0

(***************************************************************************)
(* C10.  Fees are not paid to the miner: committing a block returned by    *)
(* mine_pending_transactions that holds a transaction with fee f > 0       *)
(* lowers the sender's balance by value + f, raises the recipient's by     *)
(* value and raises the miner's by exactly mining_reward; the fee is       *)
(* credited to no address.                                                 *)
(***************************************************************************)
RECURSIVE TotalFees(_)
TotalFees(transactions) ==
    IF transactions = << >> THEN 0
    ELSE Head(transactions).fee + TotalFees(Tail(transactions))

C12_BlockWheneverPending ==
    LastCall("mine_pending_transactions") =>
        /\ old.pending_transactions = << >> => ~ret.ok
        /\ old.pending_transactions # << >> =>
               /\ ret.ok
               /\ ret.block[1].index = Len(old.chain)
               /\ ret.block[1].previous_hash =
                      calculate_hash(old.chain[Len(old.chain)])
               /\ ret.block[1].difficulty = difficulty

(***************************************************************************)
(* C12 amended.  mine_pending_transactions returns None when the pending   *)
(* queue is empty or none of the pending transactions is affordable        *)
(* against the committed balances (or block_size < 1); otherwise it        *)
(* returns a Block whose index is the chain length, whose previous_hash is *)
(* the hash of the chain tip and whose difficulty is the ledger's.         *)
(***************************************************************************)
C12_BlockWhenAccepted ==
    LastCall("mine_pending_transactions") =>
        /\ ret.ok <=>
               /\ ret.block_size >= 1
               /\ \E i \in 1..Len(old.pending_transactions) :
                      Cost(old.pending_transactions[i])
                          <= Get(old.balances,
                                 old.pending_transactions[i].from_address)
        /\ ret.ok =>
               /\ ret.block[1].index = Len(old.chain)
               /\ ret.block[1].previous_hash =
                      calculate_hash(old.chain[Len(old.chain)])
               /\ ret.block[1].difficulty = difficulty

\* The pending queue is not empty and no block is returned.
C12_Witness ==
    /\ LastCall("mine_pending_transactions")
    /\ old.pending_transactions # << >>
    /\ ~ret.ok

(***************************************************************************)
(* C13.  Assembly is non-destructive: mine_pending_transactions changes    *)
(* neither the chain nor the balances nor the pending queue; a pending     *)
(* transaction that is not affordable during the pass is skipped and is    *)
(* still pending at its position after the call.                           *)
(***************************************************************************)
C13_AssemblyNonDestructive ==
    LastCall("mine_pending_transactions") =>
        /\ chain = old.chain
        /\ balances = old.balances
        /\ pending_transactions = old.pending_transactions

\* The first pending transaction is skipped, the second one is in the
\* block, and both are still pending in their order.
C13_Witness ==
    /\ LastCall("mine_pending_transactions")
    /\ ret.ok
    /\ Len(old.pending_transactions) = 2
    /\ Cost(old.pending_transactions[1])
           > Get(old.balances, old.pending_transactions[1].from_address)
    /\ NonReward(ret.block[1].transactions) = <<old.pending_transactions[2]>>
    /\ pending_transactions = old.pending_transactions

(***************************************************************************)
(* C14.  Reward placement: with mining_reward > 0 a block returned by      *)
(* mine_pending_transactions has exactly one reward transaction, at        *)
(* position 0, from -1 to the miner address, of value mining_reward and    *)
(* fee 0, followed by the accepted pending transactions; with              *)
(* mining_reward = 0 it holds the accepted pending transactions only.      *)
(***************************************************************************)
C14_RewardPlacement ==
    (LastCall("mine_pending_transactions") /\ ret.ok) =>
        LET txs == ret.block[1].transactions
            accepted == IF mining_reward > 0 THEN Tail(txs) ELSE txs
        IN /\ mining_reward > 0 =>
                  /\ txs[1] = [from_address |-> -1,
                               to_address |-> ret.miner_address,
                               value |-> mining_reward, fee |-> 0,
                               timestamp |-> NoTimestamp]
                  /\ Cardinality({i \in 1..Len(txs) : IsReward(txs[i])}) = 1
           /\ mining_reward = 0 => \A i \in 1..Len(txs) : ~IsReward(txs[i])
           /\ Len(accepted) \in 1..ret.block_size
           /\ IsSubsequence(accepted, old.pending_transactions)
           /\ accepted =
                  validate_transactions_for_block(old.pending_transactions,
                                                  ret.block_size)

\* A block with the reward in front of two accepted transactions.
C14_Witness ==
    /\ LastCall("mine_pending_transactions")
    /\ ret.ok
    /\ mining_reward > 0
    /\ Len(ret.block[1].transactions) = 3
    /\ IsReward(ret.block[1].transactions[1])
    /\ ~IsReward(ret.block[1].transactions[2])
    /\ ~IsReward(ret.block[1].transactions[3])

(***************************************************************************)
(* Vocabulary of the miner's properties.                                   *)
(***************************************************************************)
\* The nonces of [0, max_nonce) with which the hash of block b starts with
\* b.difficulty zeros.
Qualifying(b) ==
    {n \in 0..(max_nonce - 1) :
        LeadingZeros(calculate_hash([b EXCEPT !.nonce = n])) >= b.difficulty}

Smallest(S) == CHOOSE n \in S : \A k \in S : n <= k

(***************************************************************************)
(* C15.  Sequential proof-of-work: for a block of difficulty d >= 1,       *)
(* mine_block returns True with block.nonce the smallest nonce of          *)
(* [0, max_nonce) whose hash starts with d zeros, so that is_hash_valid    *)
(* holds, and False if no nonce of the range qualifies; run again on the   *)
(* block it yields the same nonce.                                         *)
(***************************************************************************)
C15_SequentialSearch ==
    (LastCall("mine_block") /\ ret.arg[1].difficulty >= 1) =>
        LET b == ret.arg[1]
            out == ret.block[1]
        IN /\ ~ret.raised
           /\ ret.ok <=> Qualifying(b) # {}
           /\ ret.ok =>
                  /\ out = [b EXCEPT !.nonce = Smallest(Qualifying(b))]
                  /\ is_hash_valid(out)
                  /\ mine_block(out, NoStats).found
                  /\ mine_block(out, NoStats).block = out

\* Two nonces of the range qualify and the smaller one, not 0, is found.
C15_Witness ==
    /\ LastCall("mine_block")
    /\ ret.ok
    /\ Cardinality(Qualifying(ret.arg[1])) >= 2
    /\ ret.block[1].nonce > 0
    /\ ret.block[1].nonce = Smallest(Qualifying(ret.arg[1]))

(***************************************************************************)
(* C16.  Exhaustion: when no nonce of [0, max_nonce) qualifies, mine_block *)
(* returns False without raising, leaves block.nonce at max_nonce - 1 and  *)
(* leaves the miner's blocks_mined and total_hashes as they were.          *)
(***************************************************************************)
C16_Exhaustion ==
    (/\ LastCall("mine_block")
     /\ ret.arg[1].difficulty >= 1
     /\ Qualifying(ret.arg[1]) = {}) =>
        /\ ~ret.raised
        /\ ~ret.ok
        /\ ret.block[1] = [ret.arg[1] EXCEPT !.nonce = max_nonce - 1]
        /\ mining_stats = old.mining_stats

\* A miner that has mined a block before exhausts the range on another.
C16_Witness ==
    /\ LastCall("mine_block")
    /\ ~ret.ok
    /\ ~ret.raised
    /\ Qualifying(ret.arg[1]) = {}
    /\ ret.arg[1].nonce = 0
    /\ ret.block[1].nonce = max_nonce - 1
    /\ mining_stats.blocks_mined > 0
    /\ mining_stats.total_hashes > 0

(***************************************************************************)
(* C17.  Invalid difficulty: for a block of difficulty < 1, mine_block and *)
(* mine_block_parallel raise at once, no nonce is tried and block.nonce    *)
(* and the statistics are as before.                                       *)
(***************************************************************************)
C17_InvalidDifficulty ==
    /\ (/\ LastCall("mine_block") \/ LastCall("mine_block_parallel")
        /\ ret.arg[1].difficulty < 1) =>
           /\ ret.raised
           /\ ret.block[1] = ret.arg[1]
           /\ mining_stats = old.mining_stats
    /\ (call.pc # "idle" /\ call.arg[1].difficulty < 1) =>
           /\ futures = << >>
           /\ objects[0] = call.arg[1]
           /\ call.pc = "shutdown" => call.raised

\* mine_block_parallel has raised for the genesis block (difficulty 0).
C17_Witness ==
    /\ LastCall("mine_block_parallel")
    /\ ret.raised
    /\ ret.arg[1].difficulty < 1
    /\ ret.arg[1] = chain[1]
    /\ futures = << >>

(***************************************************************************)
(* C18.  Parallel search isolation: in mine_block_parallel every task has  *)
(* a Block object of its own, which differs from the block given only in   *)
(* its nonce; the block given is written at most once, by the calling      *)
(* thread, with the nonce of the first result reported; no later result is *)
(* applied, and when no result is reported the block is as it was given.   *)
(***************************************************************************)
Applied ==
    {j \in 1..Len(futures) : futures[j].yielded /\ futures[j].result # << >>}

C18_ParallelIsolation ==
    (call.pc # "idle" \/ LastCall("mine_block_parallel")) =>
        LET given == IF call.pc # "idle" THEN call.arg[1] ELSE ret.arg[1]
        IN /\ \A j \in 1..Len(futures) :
                  /\ futures[j].obj # 0
                  /\ \A k \in 1..Len(futures) :
                         k # j => futures[k].obj # futures[j].obj
                  /\ [objects[futures[j].obj] EXCEPT !.nonce = 0]
                         = [given EXCEPT !.nonce = 0]
           /\ Cardinality(Applied) <= 1
           /\ Applied = {} => objects[0] = given
           /\ \A j \in Applied :
                  objects[0] = [given EXCEPT !.nonce = futures[j].result[1]]

\* The result of one task has been applied; another task has finished with
\* a different nonce, which is not applied.
C18_Witness ==
    /\ LastCall("mine_block_parallel")
    /\ ret.ok
    /\ \E j \in Applied :
           \E k \in 1..Len(futures) :
               /\ k # j
               /\ futures[k].state = "FINISHED"
               /\ futures[k].result # << >>
               /\ futures[k].result # futures[j].result
               /\ ~futures[k].yielded
               /\ objects[0].nonce = futures[j].result[1]

(***************************************************************************)
(* C19.  Parallel search outcome: for every number of workers and every    *)
(* interleaving, a call of mine_block_parallel that passes the difficulty  *)
(* check returns True iff some nonce of [0, max_nonce) qualifies, as       *)
(* mine_block does; on True block.nonce is a qualifying nonce of the       *)
(* range, not necessarily the smallest; otherwise it returns False.        *)
(***************************************************************************)
C19_ParallelOutcome ==
    (LastCall("mine_block_parallel") /\ ret.arg[1].difficulty >= 1) =>
        LET b == ret.arg[1]
            out == ret.block[1]
        IN /\ ~ret.raised
           /\ ret.ok <=> Qualifying(b) # {}
           /\ ret.ok <=> mine_block(b, NoStats).found
           /\ ret.ok => /\ out.nonce \in Qualifying(b)
                         /\ out = [b EXCEPT !.nonce = out.nonce]
           /\ ~ret.ok => out = b

\* True is returned with a qualifying nonce that is not the smallest.
C19_Witness ==
    /\ LastCall("mine_block_parallel")
    /\ ret.ok
    /\ ret.block[1].nonce \in Qualifying(ret.arg[1])
    /\ ret.block[1].nonce > Smallest(Qualifying(ret.arg[1]))

(***************************************************************************)
(* C20.  Tamper detection: on a chain built by successful commits, once a  *)
(* hashed field (index, timestamp, previous_hash, nonce, transactions) of  *)
(* any committed block, the most recent one included, has been changed,    *)
(* is_chain_valid() returns False.                                         *)
(***************************************************************************)
C20_TamperDetection ==
    (LastCall("tamper") /\ Len(chain) >= 2) => ~is_chain_valid(chain, FALSE)

(***************************************************************************)
(* C21.  Single inclusion: when add_block is only given blocks returned by *)
(* mine_pending_transactions, every admitted entry of the pending queue is *)
(* either still pending or in one committed block, never both and never in *)
(* two blocks: for every transaction, its occurrences in committed blocks  *)
(* plus its occurrences in the queue are the times it was admitted.        *)
(***************************************************************************)
RECURSIVE CommittedCount(_, _)
CommittedCount(c, t) ==
    IF c = << >> THEN 0
    ELSE Count(Head(c).transactions, t) + CommittedCount(Tail(c), t)

C21_SingleInclusion ==
    \A t \in DOMAIN admitted :
        /\ CommittedCount(chain, t) <= admitted[t]
        /\ CommittedCount(chain, t) + Count(pending_transactions, t) = admitted[t]

\* A block holding an entry that was admitted once is rejected after another
\* block holding the same entry, assembled before it, was committed.
C21_Witness ==
    /\ LastCall("add_block")
    /\ ~ret.ok
    /\ Len(chain) = 2
    /\ ret.block[1] # chain[2]
    /\ old.chain = chain
    /\ \E t \in DOMAIN admitted :
           /\ admitted[t] = 1
           /\ Contains(ret.block[1].transactions, t)
           /\ Contains(chain[2].transactions, t)

(***************************************************************************)
(* C22.  Block difficulty domain: a Block can be constructed with any      *)
(* non-negative difficulty, 0 included; the constructor raises ValueError  *)
(* for a negative difficulty only.                                         *)
(***************************************************************************)
C22_DifficultyDomain ==
    (LastCall("Block") /\ ret.arg[1] >= 0) =>
        (ret.raised <=> ret.arg[2] < 0)

(***************************************************************************)
(* C23.  Snapshot round trip: in every reachable ledger state,             *)
(* load_from_file of what save_to_file wrote succeeds and gives a ledger   *)
(* with the same chain (still valid), the same pending transactions in the *)
(* same order, the same balances, difficulty and mining_reward.            *)
(***************************************************************************)
C23_SnapshotRoundTrip ==
    LastCall("load_from_file") =>
        /\ ~ret.raised
        /\ ret.value # << >>
        /\ LET loaded == ret.value[1]
           IN /\ loaded.chain = chain
              /\ is_chain_valid(loaded.chain, FALSE)
              /\ loaded.pending_transactions = pending_transactions
              /\ loaded.balances = balances
              /\ loaded.difficulty = difficulty
              /\ loaded.mining_reward = mining_reward

(***************************************************************************)
(* C24.  Transaction construction is the only gate for malformed data:     *)
(* Transaction(from, to, value, fee) succeeds iff value > 0, fee >= 0,     *)
(* to >= 0, from >= 0 or from = -1, and from # to unless from = -1, and    *)
(* raises ValueError otherwise; no transaction of the pending queue, of a  *)
(* committed block or of a block the caller holds breaks these             *)
(* constraints; an assignment to a field of a transaction raises and       *)
(* leaves the transaction as it was.                                       *)
(***************************************************************************)
WellFormed(from, to, value, fee) ==
    /\ value > 0
    /\ fee >= 0
    /\ to >= 0
    /\ (from >= 0 \/ from = -1)
    /\ (from # to \/ from = -1)

WellFormedTransaction(t) ==
    WellFormed(t.from_address, t.to_address, t.value, t.fee)

C24_ConstructionGate ==
    /\ LastCall("Transaction") =>
           /\ ret.raised <=> ~WellFormed(ret.arg[1], ret.arg[2], ret.arg[3],
                                          ret.arg[4])
           /\ ~ret.raised =>
                  /\ ret.tx # << >>
                  /\ ret.tx[1].from_address = ret.arg[1]
                  /\ ret.tx[1].to_address = ret.arg[2]
                  /\ ret.tx[1].value = ret.arg[3]
                  /\ ret.tx[1].fee = ret.arg[4]
           /\ ret.raised => ret.tx = << >>
    /\ LastCall("setattr") => (ret.raised /\ ret.tx[1] = ret.arg[1])
    /\ \A i \in 1..Len(pending_transactions) :
           WellFormedTransaction(pending_transactions[i])
    /\ \A b \in Elements(chain) \cup candidates :
           \A i \in 1..Len(b.transactions) :
               WellFormedTransaction(b.transactions[i])

\* A transfer to oneself, well formed otherwise, is refused by the
\* constructor while a constructed transaction is in a committed block.
C24_Witness ==
    /\ LastCall("Transaction")
    /\ ret.raised
    /\ ret.arg[1] = ret.arg[2]
    /\ ret.arg[1] >= 0
    /\ ret.arg[3] > 0
    /\ ret.arg[4] >= 0
    /\ Len(chain) = 2
    /\ \E i \in 1..Len(chain[2].transactions) :
           chain[2].transactions[i] \in DOMAIN admitted

(***************************************************************************)
(* C25.  Merkle root: the zero sentinel for an empty list, the hash of the *)
(* transaction for a list of one; for longer lists the pairwise reduction  *)
(* of the transaction hashes, level by level, in which the last hash of a  *)
(* level of odd size is paired with itself; swapping two distinct          *)
(* transactions of the list changes the root.  (Identical lists give       *)
(* identical roots: the root in ret is a function of the list in ret.)     *)
(***************************************************************************)
RECURSIVE PairwiseReduction(_)
PairwiseReduction(level) ==
    IF Len(level) = 1 THEN level[1]
    ELSE PairwiseReduction(
             [k \in 1..((Len(level) + 1) \div 2) |->
                 <<level[2 * k - 1],
                   level[IF 2 * k <= Len(level) THEN 2 * k ELSE Len(level)]>>])

Swapped(list, i, j) ==
    [k \in 1..Len(list) |->
        IF k = i THEN list[j] ELSE IF k = j THEN list[i] ELSE list[k]]

C25_MerkleRoot ==
    LastCall("get_merkle_root") =>
        LET transactions == ret.arg
            root == ret.value
        IN /\ transactions = << >> => root = ZeroHash
           /\ Len(transactions) = 1 => root = tx_hash(transactions[1])
           /\ transactions # << >> =>
                  root = PairwiseReduction(
                             [i \in 1..Len(transactions) |->
                                 tx_hash(transactions[i])])
           /\ root = get_merkle_root(transactions)
           /\ \A i, j \in 1..Len(transactions) :
                  transactions[i] # transactions[j] =>
                      get_merkle_root(Swapped(transactions, i, j)) # root

\* The root of three distinct transactions: a level of odd size, and
\* transactions to swap.
C25_Witness ==
    /\ LastCall("get_merkle_root")
    /\ Len(ret.arg) = 3
    /\ Cardinality(Elements(ret.arg)) = 3
    /\ ret.value = <<<<tx_hash(ret.arg[1]), tx_hash(ret.arg[2])>>,
                     <<tx_hash(ret.arg[3]), tx_hash(ret.arg[3])>>>>

(***************************************************************************)
(* C26.  get_balance(address) returns the committed balance, 0 for an      *)
(* address never seen, and has no side effect: the chain, the pending      *)
(* queue and the balance mapping, its set of keys included, are as they    *)
(* were before the call.                                                   *)
(***************************************************************************)
C26_GetBalanceReadOnly ==
    LastCall("get_balance") =>
        /\ ret.value = Get(old.balances, ret.arg)
        /\ chain = old.chain
        /\ pending_transactions = old.pending_transactions
        /\ DOMAIN balances = DOMAIN old.balances
        /\ balances = old.balances

(***************************************************************************)
(* C27.  Difficulty adjustment: 4 for an empty list, the difficulty of the *)
(* block for a list of one; otherwise, with m the mean difference of the   *)
(* timestamps of consecutive blocks and c the difficulty of the last       *)
(* block, c + 1 capped at 8 when m < 0.5 * target and never less than c,   *)
(* c - 1 floored at 1 when m > 2 * target and never more than c, and c     *)
(* otherwise; the difficulty of the ledger is left alone.                  *)
(***************************************************************************)
Min(a, b) == IF a < b THEN a ELSE b

Max(a, b) == IF a > b THEN a ELSE b

RECURSIVE SumOfDeltas(_)
SumOfDeltas(blocks) ==
    IF Len(blocks) < 2 THEN 0
    ELSE (blocks[2].timestamp - blocks[1].timestamp) + SumOfDeltas(Tail(blocks))

C27_DifficultyAdjustment ==
    LastCall("calculate_difficulty_adjustment") =>
        LET blocks == ret.arg[1]
            target == ret.arg[2]
            deltas == Len(blocks) - 1
            c == blocks[Len(blocks)].difficulty
        IN /\ blocks = << >> => ret.value = 4
           /\ Len(blocks) = 1 => ret.value = blocks[1].difficulty
           /\ Len(blocks) >= 2 =>
                  IF 2 * SumOfDeltas(blocks) < target * deltas
                  THEN ret.value = Min(c + 1, 8) /\ ret.value >= c
                  ELSE IF SumOfDeltas(blocks) > 2 * target * deltas
                  THEN ret.value = Max(c - 1, 1) /\ ret.value <= c
                  ELSE ret.value = c
           /\ difficulty = old.difficulty

(***************************************************************************)
(* C28.  Assembly selection is the greedy FIFO rule: walking the list in   *)
(* order, a transaction is accepted iff fewer than block_size were         *)
(* accepted before it and its payer's balance, the committed balance plus  *)
(* what the payer received from, minus what it paid in, the transactions   *)
(* accepted before, covers value + fee.  The non-reward transactions of    *)
(* the block of mine_pending_transactions are exactly this selection of    *)
(* the pending queue, an order-preserving subsequence of at most           *)
(* block_size transactions; the reward does not count against block_size.  *)
(***************************************************************************)
\* What address a has in the temporary balances before position i, when
\* the transactions at the positions of A were accepted.
BalanceBefore(bal, transactions, A, i, a) ==
    LET delta[k \in 0..(i - 1)] ==
            IF k = 0 THEN 0
            ELSE delta[k - 1]
                 + (IF k \in A /\ transactions[k].to_address = a
                    THEN transactions[k].value ELSE 0)
                 - (IF k \in A /\ transactions[k].from_address = a
                    THEN Cost(transactions[k]) ELSE 0)
    IN Get(bal, a) + delta[i - 1]

IsGreedy(bal, transactions, block_size, A) ==
    \A i \in 1..Len(transactions) :
        i \in A <=>
            /\ Cardinality({k \in A : k < i}) < block_size
            /\ BalanceBefore(bal, transactions, A, i,
                             transactions[i].from_address)
                   >= Cost(transactions[i])

\* The transactions of a list at the positions of A, in the order of the
\* list.
RECURSIVE AtPositions(_, _, _)
AtPositions(transactions, A, i) ==
    IF i > Len(transactions) THEN << >>
    ELSE (IF i \in A THEN <<transactions[i]>> ELSE << >>)
             \o AtPositions(transactions, A, i + 1)

IsGreedySelection(bal, transactions, block_size, selection) ==
    \E A \in SUBSET (1..Len(transactions)) :
        /\ IsGreedy(bal, transactions, block_size, A)
        /\ selection = AtPositions(transactions, A, 1)
        /\ \A B \in SUBSET (1..Len(transactions)) :
               IsGreedy(bal, transactions, block_size, B) => B = A

C28_GreedySelection ==
    /\ LastCall("validate_transactions_for_block") =>
           /\ IsGreedySelection(old.balances, ret.arg, ret.block_size, ret.value)
           /\ Len(ret.value) <= ret.block_size
           /\ IsSubsequence(ret.value, ret.arg)
    /\ (LastCall("mine_pending_transactions") /\ ret.ok) =>
           LET block == ret.block[1]
               selection == IF mining_reward > 0
                            THEN Tail(block.transactions)
                            ELSE block.transactions
           IN /\ mining_reward > 0 => IsReward(Head(block.transactions))
              /\ IsGreedySelection(old.balances, old.pending_transactions,
                                   ret.block_size, selection)
              /\ Len(selection) <= ret.block_size
              /\ IsSubsequence(selection, old.pending_transactions)
              /\ selection # << >>
    /\ (LastCall("mine_pending_transactions") /\ ~ret.ok) =>
           IsGreedySelection(old.balances, old.pending_transactions,
                             ret.block_size, << >>)

\* A transaction is accepted that its payer can only pay with what it
\* received from a transaction accepted before it in the same pass.
C28_Witness ==
    /\ LastCall("validate_transactions_for_block")
    /\ Len(ret.value) = 2
    /\ Len(ret.value) = ret.block_size
    /\ Get(old.balances, ret.value[2].from_address) < Cost(ret.value[2])
    /\ ret.value[1].to_address = ret.value[2].from_address

(***************************************************************************)
(* C29.  Every committed block but the genesis block has the difficulty    *)
(* the ledger is configured with: add_block accepts no block whose         *)
(* difficulty field is lower than, or different from, it.                  *)
(***************************************************************************)
C29_CommittedDifficulty ==
    \A i \in 2..Len(chain) : chain[i].difficulty = difficulty

(***************************************************************************)
(* C30.  Nonce range partition: for every number of workers, more workers  *)
(* than nonces and max_nonce not divisible by it included, the ranges      *)
(* handed to the workers are contiguous, pairwise disjoint and cover       *)
(* [0, max_nonce) exactly: each nonce belongs to the range of one worker.  *)
(***************************************************************************)
C30_NoncePartition ==
    LastCall("nonce_ranges") =>
        LET n == ret.arg
            r == ret.value
            InRange(i, k) == r[i][1] <= k /\ k < r[i][2]
        IN /\ Len(r) = n
           /\ r[1][1] = 0
           /\ r[n][2] = max_nonce
           /\ \A i \in 1..n : r[i][1] <= r[i][2]
           /\ \A i \in 1..(n - 1) : r[i][2] = r[i + 1][1]
           /\ \A i, j \in 1..n :
                  i # j => ~\E k \in 0..max_nonce : InRange(i, k) /\ InRange(j, k)
           /\ \A k \in 0..(max_nonce - 1) :
                  Cardinality({i \in 1..n : InRange(i, k)}) = 1
           /\ \A i \in 1..n : \A k \in (-1)..(max_nonce + 1) :
                  InRange(i, k) => (0 <= k /\ k < max_nonce)

\* More workers than nonces: the ranges of all but the last are empty.
C30_Witness ==
    /\ LastCall("nonce_ranges")
    /\ ret.arg > max_nonce
    /\ \E i \in 1..ret.arg : ret.value[i][1] = ret.value[i][2]
    /\ ret.value[ret.arg] = <<0, max_nonce>>

(***************************************************************************)
(* C31.  Parallel search terminates and does not stop losers early: a     *)
(* call of mine_block_parallel always returns; reporting a winner leaves   *)
(* every running worker as it is; and at the return every submitted task   *)
(* is cancelled before it started or has finished, a finished one with a   *)
(* satisfying nonce of its own sub-range or with the sub-range exhausted.  *)
(***************************************************************************)
C31_ParallelTermination ==
    /\ (call.pc # "idle") ~> (call.pc = "idle")
    /\ [][(call.pc = "collect" /\ call'.pc = "shutdown") =>
              \A j \in 1..Len(futures) :
                  futures[j].state = "RUNNING" => futures'[j] = futures[j]]_vars
    /\ [][(call.pc # "idle" /\ call'.pc = "idle") =>
              \A j \in 1..Len(futures) :
                  /\ futures[j].state \in {"FINISHED", "CANCELLED"}
                  /\ futures[j].state = "CANCELLED" =>
                         futures[j].nonce = start_nonce(j - 1, call.num_workers)
                  /\ futures[j].state = "FINISHED" =>
                         \/ /\ futures[j].result # << >>
                            /\ futures[j].result[1] \in Qualifying(call.arg[1])
                            /\ futures[j].result[1] >=
                                   start_nonce(j - 1, call.num_workers)
                            /\ futures[j].result[1] <
                                   end_nonce(j - 1, call.num_workers)
                         \/ /\ futures[j].result = << >>
                            /\ futures[j].nonce >= futures[j].end_nonce]_vars

\* A winner has been reported and the call waits for a loser that is still
\* running in its sub-range.
C31_Witness ==
    /\ call.pc = "shutdown"
    /\ call.retval
    /\ \E j \in 1..Len(futures) :
           /\ j # call.winner
           /\ futures[j].state = "RUNNING"
           /\ futures[j].nonce < futures[j].end_nonce


(***************************************************************************)
(* C32.  Assemble-then-commit always succeeds: a block returned by         *)
(* mine_pending_transactions on the present chain (no add_block has        *)
(* succeeded since) passes the commit-time replay, is accepted by          *)
(* add_block(block, skip_mining=True), and is accepted by add_block(block) *)
(* once a search has left it with a satisfying nonce.                      *)
(***************************************************************************)
C32_AssembleThenCommit ==
    /\ \A c \in candidates :
           c.index = Len(chain) =>
               /\ ReplayLoop(c.transactions, balances).ok
               /\ is_block_valid(c, TRUE)
               /\ is_hash_valid(c) => is_block_valid(c, FALSE)
    /\ (LastCall("mine_block") /\ ret.ok
            /\ ret.block[1].index = Len(chain)) =>
           is_block_valid(ret.block[1], FALSE)
    /\ (LastCall("add_block") /\ ret.block[1].index = Len(old.chain)
            /\ (ret.skip \/ is_hash_valid(ret.block[1]))) =>
           /\ ret.ok
           /\ chain = Append(old.chain, ret.block[1])

\* A block with a reward and a transfer, assembled and then mined to a
\* nonce above 0, has been committed with the proof of work checked.
C32_Witness ==
    /\ LastCall("add_block")
    /\ ret.ok
    /\ ~ret.skip
    /\ ret.block[1].nonce > 0
    /\ Len(ret.block[1].transactions) >= 2
    /\ IsReward(ret.block[1].transactions[1])


(***************************************************************************)
(* C33.  Stale candidates are rejected: once a block has been committed,   *)
(* add_block of a candidate assembled before that commit raises            *)
(* InvalidBlockError, with or without skip_mining, and leaves the chain,   *)
(* the pending queue and the balances as they were, so the transactions    *)
(* and the reward of the stale candidate are not applied.  The same holds  *)
(* for a candidate equal to a block of the chain.                          *)
(***************************************************************************)
C33_StaleCandidate ==
    /\ \A c \in candidates \cup Elements(chain) :
           (c.index >= 1 /\ c.index < Len(chain)) =>
               /\ ~is_block_valid(c, TRUE)
               /\ ~is_block_valid(c, FALSE)
    /\ (LastCall("add_block") /\ ret.block[1].index < Len(old.chain)) =>
           /\ ~ret.ok
           /\ chain = old.chain
           /\ pending_transactions = old.pending_transactions
           /\ balances = old.balances

\* A stale candidate whose reward and transfers the balances after the
\* commit of its sibling would still afford has been refused.
C33_Witness ==
    /\ LastCall("add_block")
    /\ ~ret.ok
    /\ Len(chain) = 2
    /\ ret.block[1].index = 1
    /\ ret.block[1] # chain[2]
    /\ ret.block[1].previous_hash = chain[2].previous_hash
    /\ IsReward(ret.block[1].transactions[1])
    /\ ReplayLoop(ret.block[1].transactions, balances).ok


(***************************************************************************)
(* C34.  Reward issuance is bounded per block: every block of the chain    *)
(* after the genesis block, whoever built it, contains at most one reward  *)
(* transaction, and the value of that transaction is the ledger's          *)
(* mining_reward.                                                          *)
(***************************************************************************)
RewardsOf(block) ==
    {j \in 1..Len(block.transactions) : IsReward(block.transactions[j])}

C34_RewardBound ==
    \A i \in 2..Len(chain) :
        /\ Cardinality(RewardsOf(chain[i])) <= 1
        /\ \A j \in RewardsOf(chain[i]) :
               chain[i].transactions[j].value = mining_reward


(***************************************************************************)
(* C35.  Assembly progress: with block_size >= 1 and a pending             *)
(* transaction affordable against the committed balances,                  *)
(* mine_pending_transactions returns a block with at least one transfer,   *)
(* the first affordable one of the queue among them; it returns None on a  *)
(* queue that is not empty only when block_size < 1 or no pending          *)
(* transaction is affordable; and a successful commit of an assembled      *)
(* block leaves the queue strictly shorter.                                *)
(***************************************************************************)
AffordableAt(pending, bal) ==
    {i \in 1..Len(pending) : Get(bal, pending[i].from_address) >= Cost(pending[i])}

C35_AssemblyProgress ==
    /\ LastCall("mine_pending_transactions") =>
           LET affordable == AffordableAt(old.pending_transactions, old.balances)
           IN /\ (ret.block_size >= 1 /\ affordable # {}) =>
                     /\ ret.ok
                     /\ NonReward(ret.block[1].transactions) # << >>
                     /\ Head(NonReward(ret.block[1].transactions)) =
                            old.pending_transactions[Smallest(affordable)]
              /\ (~ret.ok /\ old.pending_transactions # << >>) =>
                     (ret.block_size < 1 \/ affordable = {})
              /\ (ret.block_size < 1 \/ affordable = {}) => ~ret.ok
    /\ (LastCall("add_block") /\ ret.ok) =>
           /\ NonReward(ret.block[1].transactions) # << >>
           /\ Len(pending_transactions) < Len(old.pending_transactions)

\* The first pending transaction is no longer affordable, the second is,
\* and the block returned holds the second.
C35_Witness ==
    /\ LastCall("mine_pending_transactions")
    /\ ret.ok
    /\ Len(old.pending_transactions) = 2
    /\ AffordableAt(old.pending_transactions, old.balances) = {2}
    /\ NonReward(ret.block[1].transactions) = <<old.pending_transactions[2]>>


(***************************************************************************)
(* C36.  mine_blockchain returns a count k with 0 <= k <= num_blocks; the  *)
(* chain has grown by exactly k blocks on top of what it was and the       *)
(* miner's blocks_mined by exactly k; with k < num_blocks the loop stopped *)
(* in a round in which no block could be assembled or the search           *)
(* exhausted max_nonce; and a block whose search failed is not in the      *)
(* chain.  The call does not raise.                                        *)
(***************************************************************************)
WithoutNonce(b) == [b EXCEPT !.nonce = 0]

C36_MineBlockchain ==
    /\ call.pc = "mine_blockchain" =>
           /\ call.blocks_mined = call.round
           /\ call.round <= call.num_blocks
           /\ Len(chain) = Len(old.chain) + call.blocks_mined
           /\ mining_stats.blocks_mined =
                  old.mining_stats.blocks_mined + call.blocks_mined
    /\ LastCall("mine_blockchain") =>
           /\ ~ret.raised
           /\ LET k == ret.value[1]
                  num_blocks == ret.arg[2]
              IN /\ 0 <= k /\ k <= num_blocks
                 /\ Len(chain) = Len(old.chain) + k
                 /\ SubSeq(chain, 1, Len(old.chain)) = old.chain
                 /\ mining_stats.blocks_mined = old.mining_stats.blocks_mined + k
                 /\ \A j \in (Len(old.chain) + 1)..Len(chain) :
                        is_hash_valid(chain[j])
                 /\ k < num_blocks =>
                        \/ /\ ret.block # << >>
                           /\ RangeHits(ret.block[1], 0, max_nonce) = {}
                        \/ /\ ret.block = << >>
                           /\ \A ts \in Timestamps :
                                  mine_pending_transactions(ret.arg[1],
                                      ret.arg[3], ts) = << >>
                 /\ ret.block # << >> =>
                        /\ k < num_blocks
                        /\ \A j \in 1..Len(chain) :
                               WithoutNonce(chain[j]) # WithoutNonce(ret.block[1])

\* Two rounds have committed two blocks, one transfer each.
C36_Witness ==
    /\ LastCall("mine_blockchain")
    /\ ret.value = <<2>>
    /\ ret.arg[2] = 2
    /\ Len(chain) = Len(old.chain) + 2
    /\ mining_stats.blocks_mined = old.mining_stats.blocks_mined + 2


(***************************************************************************)
(* C37.  Proof-of-work validity of the whole chain: when every block has   *)
(* been committed by add_block with skip_mining=False and none has been    *)
(* modified since, is_chain_valid(validate_mining=True) returns True in    *)
(* every reachable state; the genesis block, of difficulty 0, is not       *)
(* checked.                                                                *)
(***************************************************************************)
C37_ChainProofOfWork ==
    /\ is_chain_valid(chain, TRUE)
    /\ \A i \in 2..Len(chain) :
           LeadingZeros(calculate_hash(chain[i])) >= chain[i].difficulty
    /\ chain[1].difficulty = GenesisDifficulty

\* A block mined to a nonce above 0 has been committed with the proof of
\* work checked, and a block without a satisfying nonce has been refused.
C37_Witness ==
    /\ Len(chain) = 2
    /\ chain[2].nonce > 0
    /\ chain[2].transactions # << >>
    /\ LastCall("add_block")
    /\ ~ret.ok
    /\ ~ret.skip
    /\ ret.block[1].index = 2
    /\ ret.block[1].previous_hash = calculate_hash(chain[2])
    /\ ~is_hash_valid(ret.block[1])


(***************************************************************************)
(* C38.  Legacy adapter compatibility: for the same startBalances,         *)
(* pendingTransactions and blockSize, when the original getLatestBlock     *)
(* returns and no search of the adapter is exhausted, the transactions of  *)
(* the last block reported by samplechain.legacy.getLatestBlock are those  *)
(* of the last block reported by the original.                             *)
(***************************************************************************)
ReportedTransactions(value) == IF value = << >> THEN << >> ELSE value[4]

C38_LegacyCompatibility ==
    LastCall("getLatestBlock") =>
        LET legacy == ret.value.legacy
            original == ret.value.original
        IN (~original.raised /\ ~legacy.raised /\ ~legacy.exhausted) =>
               ReportedTransactions(legacy.value) = original.transactions

(***************************************************************************)
(* C39.  Legacy adapter termination: samplechain.legacy.getLatestBlock     *)
(* returns without raising; the triples that are not of length 3, that     *)
(* fail Transaction validation or that fail admission against the start    *)
(* balances are skipped and the others are queued in order; every turn of  *)
(* the loop that does not leave it commits a block and shortens the queue; *)
(* and the result is the formatted string of the last committed block, or  *)
(* the empty string when no block was committed.                           *)
(***************************************************************************)
StartBalance(startBalances, a) ==
    IF a >= 0 /\ a < Len(startBalances) THEN startBalances[a + 1] ELSE 0

Admissible(startBalances, tx_data) ==
    /\ Len(tx_data) = 3
    /\ WellFormed(tx_data[1], tx_data[2], tx_data[3], 0)
    /\ StartBalance(startBalances, tx_data[1]) >= tx_data[3]

C39_LegacyTermination ==
    LastCall("getLatestBlock") =>
        LET legacy == ret.value.legacy
            startBalances == ret.arg[1]
            kept == SelectSeq(ret.arg[2],
                              LAMBDA tx_data : Admissible(startBalances, tx_data))
        IN /\ ~legacy.raised
           /\ legacy.admitted =
                  [i \in 1..Len(kept) |->
                      Transaction(kept[i][1], kept[i][2], kept[i][3], 0)]
           /\ Len(legacy.chain) = 1 + Len(legacy.rounds)
           /\ \A i \in 1..Len(legacy.rounds) :
                  legacy.rounds[i][2] < legacy.rounds[i][1]
           /\ Len(legacy.rounds) <= Len(legacy.admitted)
           /\ Len(legacy.chain) = 1 => legacy.value = << >>
           /\ Len(legacy.chain) > 1 =>
                  /\ legacy.value =
                         legacy_format(legacy.chain[Len(legacy.chain)])
                  /\ legacy.value # << >>

\* A triple of length 2 has been skipped and two turns of the loop have
\* each committed a block; the string is that of the second.
C39_Witness ==
    /\ LastCall("getLatestBlock")
    /\ \E i \in 1..Len(ret.arg[2]) : Len(ret.arg[2][i]) # 3
    /\ Len(ret.value.legacy.rounds) = 2
    /\ Len(ret.value.legacy.admitted) = 2
    /\ ret.value.legacy.value # << >>
    /\ ret.value.legacy.value[1][1] = 2

====
